---- MODULE Spec2Model ----
(***************************************************************************)
(* GlowBack API gateway: the run store (api/app/store.py), the             *)
(* optimization store (api/app/optimization_store.py) and their callers.   *)
(*                                                                         *)
(* Scheduling.  Both stores run on one asyncio event loop.  A coroutine    *)
(* gives up the loop only at an await that really suspends.  Acquiring an  *)
(* asyncio.Lock that nobody holds does not suspend, and neither store ever *)
(* awaits inside an `async with self._lock` block, so the lock is never    *)
(* held while another task runs and is therefore never contended.  Every   *)
(* RunStore method, and every stretch of run_optimization between two      *)
(* asyncio.sleep calls, runs to its end before any other task is           *)
(* scheduled.  An action of this module is one such stretch.               *)
(*                                                                         *)
(* Python values.  None is the empty sequence and a present Optional value *)
(* v is <<v>>.  The float progress is a fixed-point number in tenths.      *)
(***************************************************************************)
EXTENDS Integers, Sequences, FiniteSets, TLC

VARIABLES
    now,        \* the clock read by datetime.now(timezone.utc)
    runs,       \* RunStore._runs: run_id -> RunRecord
    queues,     \* the asyncio.Queue objects created by subscribe: id -> items
    delivered,  \* observer: the event ids put on each queue so far, in order
    ignored,    \* observer: the RunStore methods that returned at "if not record"
    opts,       \* OptimizationStore._optimizations: opt_id -> OptimizationRecord
    sched,      \* the run_optimization task of each opt_id: where it stands
    cancels,    \* observer: every cancel call that returned True, per opt_id
    refused,    \* observer: whether a cancel call returned False, per opt_id
    tasks,      \* the MockEngineAdapter.run task of each run: where it stands
    streams,    \* the stream_backtest handler of each connection and what it sent
    mono,       \* the clock read by time.monotonic()
    buckets,    \* RateLimiter._buckets: client_ip -> _Bucket
    checks,     \* observer: what every check call returned, per client_ip
    held,       \* the asyncio.Lock of each store: the coroutine holding it
    coros       \* the coroutines seen as lock and await steps: where each stands

runVars == <<runs, queues, delivered, ignored>>
optVars == <<opts, sched, cancels, refused>>
limVars == <<mono, buckets, checks>>
lockVars == <<held, coros>>
vars == <<now, runs, queues, delivered, ignored, opts, sched, cancels, refused, tasks, streams,
          mono, buckets, checks, held, coros>>

----------------------------------------------------------------------------
(* Bounds of the model *)

MaxRuns == 2
MaxEvents == 3
MaxQueues == 1
MaxTime == 1
MaxTrials == 3
MaxConcurrency == 2
OverflowEvents == 102
OverflowQueues == 2
SubscribeBy == 2
MaxTokens == 2
Window == 3
MaxMono == 4
MaxChecks == 4
MaxStreams == 1

(* Program constants *)

QueueMaxSize == 100
ProgressOne == 10
Micro == 1000000

----------------------------------------------------------------------------
(* Python values *)

None == <<>>
Some(v) == <<v>>

Min(a, b) == IF a < b THEN a ELSE b
Max(a, b) == IF a > b THEN a ELSE b

(* Inputs *)

RunIds == 1..MaxRuns
QueueIds == 1..MaxQueues
RunState == {"queued", "running", "completed", "failed"}
Requests == {"request"}
Results == {"R1", "R2"}
StateInputs ==
    { <<"queued", None>>, <<"running", None>>, <<"completed", None>>,
      <<"failed", Some("boom")>> }
ProgressInputs ==
    { <<0 - 5, None>>, <<5, Some("Step")>>, <<17, None>> }
Cursors == {None} \cup {Some(k) : k \in 0..MaxEvents}

----------------------------------------------------------------------------
(* RunStore *)

BacktestStatus(run_id, t) ==
    [ run_id |-> run_id, state |-> "queued", progress |-> 0, created_at |-> t,
      started_at |-> None, finished_at |-> None, error |-> None ]

RunRecord(request, status) ==
    [ request |-> request, status |-> status, result |-> None,
      events |-> <<>>, subscribers |-> {}, next_event_id |-> 1 ]

BacktestEvent(event_id, run_id, type, t, payload) ==
    [ event_id |-> event_id, run_id |-> run_id, type |-> type,
      timestamp |-> t, payload |-> payload ]

(* _fanout that stops at the first full queue instead of skipping it *)
_fanout_break(qs, subscribers, event) ==
    IF \E q \in subscribers : Len(qs[q]) >= QueueMaxSize
    THEN qs
    ELSE [ q \in DOMAIN qs |->
             IF q \in subscribers THEN Append(qs[q], event) ELSE qs[q] ]

(* _fanout on queues without a capacity *)
_fanout_unbounded(qs, subscribers, event) ==
    [ q \in DOMAIN qs |->
        IF q \in subscribers THEN Append(qs[q], event) ELSE qs[q] ]

(* _fanout: put_nowait on every subscriber queue, a full queue is skipped *)
_fanout(qs, subscribers, event) ==
    [ q \in DOMAIN qs |->
        IF q \in subscribers /\ Len(qs[q]) < QueueMaxSize
        THEN Append(qs[q], event)
        ELSE qs[q] ]

(* next_event with ids counted from zero *)
next_event_zero_based(rs, run_id, type, payload, t) ==
    BacktestEvent(Len(rs[run_id].events), run_id, type, t, payload)

(* the event _publish_event builds for run_id in the store rs *)
next_event(rs, run_id, type, payload, t) ==
    BacktestEvent(rs[run_id].next_event_id, run_id, type, t, payload)

(* _publish_event that forgets to advance next_event_id *)
_publish_event_reuse(rs, run_id, type, payload, t) ==
    IF run_id \notin DOMAIN rs
    THEN rs
    ELSE [ rs EXCEPT ![run_id].events =
                         Append(@, BacktestEvent(rs[run_id].next_event_id,
                                                 run_id, type, t, payload)) ]

(* _publish_event on a log that keeps its two newest events only *)
_publish_event_trims(rs, run_id, type, payload, t) ==
    IF run_id \notin DOMAIN rs
    THEN rs
    ELSE LET log == Append(rs[run_id].events,
                           next_event(rs, run_id, type, payload, t))
         IN  [ rs EXCEPT ![run_id].next_event_id = @ + 1,
                         ![run_id].events =
                             IF Len(log) > 2 THEN Tail(log) ELSE log ]

(* _publish_event, its effect on the run table *)
_publish_event(rs, run_id, type, payload, t) ==
    IF run_id \notin DOMAIN rs
    THEN rs
    ELSE [ rs EXCEPT ![run_id].next_event_id = @ + 1,
                     ![run_id].events =
                         Append(@, next_event(rs, run_id, type, payload, t)) ]

(* _publish_event, its effect on the subscriber queues *)
_publish_fanout(rs, qs, run_id, type, payload, t) ==
    IF run_id \notin DOMAIN rs
    THEN qs
    ELSE _fanout(qs, rs[run_id].subscribers,
                 next_event(rs, run_id, type, payload, t))

(* update_state that stamps started_at on every running transition *)
set_state_restamps(rs, run_id, state, error, t) ==
    [ rs EXCEPT
        ![run_id].status.state = state,
        ![run_id].status.error = error,
        ![run_id].status.started_at =
            IF state = "running" THEN Some(t) ELSE @,
        ![run_id].status.finished_at =
            IF state \in {"completed", "failed"} THEN Some(t) ELSE @ ]

(* the run table after lines 91-100 of update_state *)
set_state(rs, run_id, state, error, t) ==
    [ rs EXCEPT
        ![run_id].status.state = state,
        ![run_id].status.error = error,
        ![run_id].status.started_at =
            IF state = "running" /\ @ = None THEN Some(t) ELSE @,
        ![run_id].status.finished_at =
            IF state \in {"completed", "failed"} THEN Some(t) ELSE @ ]

state_payload(state, error) == [ state |-> state, error |-> error ]

(* clamp without the lower bound *)
clamp_upper_only(progress) == Min(progress, ProgressOne)

clamp(progress) == Max(0, Min(progress, ProgressOne))

progress_payload(progress, message) ==
    IF message # None
    THEN [ progress |-> progress, message |-> message[1] ]
    ELSE [ progress |-> progress ]

(* observer of the early return: method was called with run_id *)
Returned(method, run_id) ==
    ignored' = IF run_id \in DOMAIN runs THEN ignored ELSE ignored \cup {method}

(* observer of put_nowait: the id of every event a step put on a queue *)
Observe ==
    delivered' =
        [ q \in DOMAIN queues' |->
            IF q \notin DOMAIN queues
            THEN <<>>
            ELSE delivered[q] \o
                 [ i \in 1..(Len(queues'[q]) - Len(queues[q])) |->
                     queues'[q][Len(queues[q]) + i].event_id ] ]

(* create_run that stores the record and publishes nothing *)
create_run_call_silent(run_id, request) ==
    /\ run_id \notin DOMAIN runs
    /\ runs' = [ r \in DOMAIN runs \cup {run_id} |->
                   IF r = run_id
                   THEN RunRecord(request, BacktestStatus(run_id, now))
                   ELSE runs[r] ]
    /\ UNCHANGED <<queues, delivered, ignored>>

create_run_call(run_id, request) ==
    /\ run_id \notin DOMAIN runs
    /\ LET record == RunRecord(request, BacktestStatus(run_id, now))
           rs == [ r \in DOMAIN runs \cup {run_id} |->
                     IF r = run_id THEN record ELSE runs[r] ]
           payload == [ state |-> "queued", message |-> "Run queued" ]
       IN  /\ runs' = _publish_event(rs, run_id, "state", payload, now)
           /\ queues' = _publish_fanout(rs, queues, run_id, "state", payload, now)
    /\ Observe
    /\ UNCHANGED ignored

create_run(run_id, request) ==
    /\ create_run_call(run_id, request)
    /\ UNCHANGED <<now, optVars, tasks, streams, limVars, lockVars>>

(* update_state that returns after its first locked block *)
update_state_call_unpublished(run_id, state, error) ==
    /\ IF run_id \notin DOMAIN runs
       THEN UNCHANGED runs
       ELSE runs' = set_state(runs, run_id, state, error, now)
    /\ UNCHANGED queues
    /\ Observe
    /\ Returned("update_state", run_id)

update_state_call(run_id, state, error) ==
    /\ IF run_id \notin DOMAIN runs
       THEN UNCHANGED <<runs, queues>>
       ELSE LET rs == set_state(runs, run_id, state, error, now)
                payload == state_payload(state, error)
            IN  /\ runs' = _publish_event(rs, run_id, "state", payload, now)
                /\ queues' =
                       _publish_fanout(rs, queues, run_id, "state", payload, now)
    /\ Observe
    /\ Returned("update_state", run_id)

update_state(run_id, state, error) ==
    /\ update_state_call(run_id, state, error)
    /\ UNCHANGED <<now, optVars, tasks, streams, limVars, lockVars>>

(* update_progress on a store that makes the record it does not find *)
update_progress_call_creates(run_id, progress, message) ==
    /\ LET rs0 == [ r \in DOMAIN runs \cup {run_id} |->
                      IF r \in DOMAIN runs
                      THEN runs[r]
                      ELSE RunRecord("request", BacktestStatus(r, now)) ]
           rs == [ rs0 EXCEPT ![run_id].status.progress = clamp(progress) ]
           payload == progress_payload(progress, message)
       IN  /\ runs' = _publish_event(rs, run_id, "progress", payload, now)
           /\ queues' =
                  _publish_fanout(rs, queues, run_id, "progress", payload, now)
    /\ Observe
    /\ Returned("update_progress", run_id)

update_progress_call(run_id, progress, message) ==
    /\ IF run_id \notin DOMAIN runs
       THEN UNCHANGED <<runs, queues>>
       ELSE LET rs == [ runs EXCEPT ![run_id].status.progress = clamp(progress) ]
                payload == progress_payload(progress, message)
            IN  /\ runs' = _publish_event(rs, run_id, "progress", payload, now)
                /\ queues' =
                       _publish_fanout(rs, queues, run_id, "progress", payload, now)
    /\ Observe
    /\ Returned("update_progress", run_id)

update_progress(run_id, progress, message) ==
    /\ update_progress_call(run_id, progress, message)
    /\ UNCHANGED <<now, optVars, tasks, streams, limVars, lockVars>>

(* set_result that stores the result and never calls update_state *)
set_result_only_stores(run_id, result) ==
    /\ IF run_id \notin DOMAIN runs
       THEN UNCHANGED runs
       ELSE runs' = [ runs EXCEPT ![run_id].result = Some(result) ]
    /\ Returned("set_result", run_id)
    /\ UNCHANGED <<now, queues, delivered, optVars, tasks, streams, limVars, lockVars>>

set_result_call(run_id, result) ==
    /\ IF run_id \notin DOMAIN runs
       THEN UNCHANGED <<runs, queues>>
       ELSE LET rs1 == [ runs EXCEPT ![run_id].result = Some(result) ]
                rs2 == set_state(rs1, run_id, "completed", None, now)
                payload == state_payload("completed", None)
            IN  /\ runs' = _publish_event(rs2, run_id, "state", payload, now)
                /\ queues' =
                       _publish_fanout(rs2, queues, run_id, "state", payload, now)
    /\ Observe
    /\ Returned("set_result", run_id)

set_result(run_id, result) ==
    /\ set_result_call(run_id, result)
    /\ UNCHANGED <<now, optVars, tasks, streams, limVars, lockVars>>

(* subscribe that hands out a queue already holding the run's log *)
subscribe_call_preloaded(run_id) ==
    /\ IF run_id \notin DOMAIN runs
       THEN UNCHANGED <<runs, queues>>
       ELSE LET queue == Cardinality(DOMAIN queues) + 1
            IN  /\ queues' = [ q \in DOMAIN queues \cup {queue} |->
                                 IF q = queue
                                 THEN runs[run_id].events
                                 ELSE queues[q] ]
                /\ runs' = [ runs EXCEPT ![run_id].subscribers = @ \cup {queue} ]
    /\ Observe
    /\ Returned("subscribe", run_id)

subscribe_call(run_id) ==
    /\ IF run_id \notin DOMAIN runs
       THEN UNCHANGED <<runs, queues>>
       ELSE LET queue == Cardinality(DOMAIN queues) + 1
            IN  /\ queues' = [ q \in DOMAIN queues \cup {queue} |->
                                 IF q = queue THEN <<>> ELSE queues[q] ]
                /\ runs' = [ runs EXCEPT ![run_id].subscribers = @ \cup {queue} ]
    /\ Observe
    /\ Returned("subscribe", run_id)

subscribe(run_id) ==
    /\ subscribe_call(run_id)
    /\ UNCHANGED <<now, optVars, tasks, streams, limVars, lockVars>>

unsubscribe_call(run_id, queue) ==
    /\ queue \in DOMAIN queues
    /\ IF run_id \notin DOMAIN runs
       THEN UNCHANGED runs
       ELSE runs' = [ runs EXCEPT ![run_id].subscribers = @ \ {queue} ]
    /\ Returned("unsubscribe", run_id)
    /\ UNCHANGED <<queues, delivered>>

unsubscribe(run_id, queue) ==
    /\ unsubscribe_call(run_id, queue)
    /\ UNCHANGED <<now, optVars, tasks, streams, limVars, lockVars>>

(* list(self._runs.values()): the records in the order of their insertion. *)
(* Run ids are uuid4 values and carry no order, so every order in which    *)
(* created_at never decreases may be the order of the dict.                *)
_runs_values ==
    { [ i \in DOMAIN order |-> runs[order[i]] ] :
        order \in { f \in [ 1..Cardinality(DOMAIN runs) -> DOMAIN runs ] :
                      /\ \A i, j \in DOMAIN f : f[i] = f[j] => i = j
                      /\ \A i, j \in DOMAIN f :
                             i < j => runs[f[i]].status.created_at
                                          <= runs[f[j]].status.created_at } }

(* the state query parameter: absent, or one RunState *)
StateFilters == {None} \cup { Some(state) : state \in RunState }

(* the limits GET /backtests lets through (ge=1), up to one past the runs *)
Limits == 1..(MaxRuns + 1)

(* records.sort(key=created_at) without reverse: oldest first *)
RECURSIVE sort_forward(_)
sort_forward(records) ==
    IF records = <<>>
    THEN <<>>
    ELSE LET rest == sort_forward(Tail(records))
             record == Head(records)
             before == SelectSeq(rest, LAMBDA other :
                           other.status.created_at < record.status.created_at)
             after == SelectSeq(rest, LAMBDA other :
                           other.status.created_at >= record.status.created_at)
         IN  before \o <<record>> \o after

(* records.sort(key=created_at, reverse=True): newest first, records with  *)
(* equal keys keep their order                                             *)
RECURSIVE sort_reverse(_)
sort_reverse(records) ==
    IF records = <<>>
    THEN <<>>
    ELSE LET rest == sort_reverse(Tail(records))
             record == Head(records)
             before == SelectSeq(rest, LAMBDA other :
                           other.status.created_at > record.status.created_at)
             after == SelectSeq(rest, LAMBDA other :
                           other.status.created_at <= record.status.created_at)
         IN  before \o <<record>> \o after

(* list_runs on the snapshot records: filter, sort, slice *)
list_runs(records, state, limit) ==
    LET filtered == IF state # None
                    THEN SelectSeq(records, LAMBDA record :
                                       record.status.state = state[1])
                    ELSE records
        sorted == sort_reverse(filtered)
    IN  [ i \in 1..Min(limit, Len(sorted)) |-> sorted[i].status ]

(* queue.get() by the observer that owns the queue *)
queue_get_call(queue) ==
    /\ queue \in DOMAIN queues
    /\ queues[queue] # <<>>
    /\ queues' = [ queues EXCEPT ![queue] = Tail(@) ]
    /\ UNCHANGED <<runs, delivered, ignored>>

queue_get(queue) ==
    /\ queue_get_call(queue)
    /\ UNCHANGED <<now, optVars, tasks, streams, limVars, lockVars>>

(* reads *)
get_status(run_id) ==
    IF run_id \in DOMAIN runs THEN Some(runs[run_id].status) ELSE None

get_result(run_id) ==
    IF run_id \in DOMAIN runs THEN runs[run_id].result ELSE None

(* GET /backtests/{run_id}/results: the response of the endpoint *)
get_backtest_results(run_id) ==
    LET result == get_result(run_id)
    IN  IF result = None
        THEN [ status_code |-> 409, detail |-> "Results not ready" ]
        ELSE [ status_code |-> 200, body |-> result[1] ]

(* the cursor compared with >= *)
after_cursor_inclusive(event, last_event_id) == event.event_id >= last_event_id

after_cursor(event, last_event_id) == event.event_id > last_event_id

get_events_after(run_id, last_event_id) ==
    IF run_id \notin DOMAIN runs
    THEN <<>>
    ELSE IF last_event_id = None
         THEN runs[run_id].events
         ELSE LET keep(event) == after_cursor(event, last_event_id[1])
              IN  SelectSeq(runs[run_id].events, keep)

----------------------------------------------------------------------------
(* OptimizationStore *)

OptIds == {1, 2}
OptimizationState == {"pending", "running", "completed", "failed", "cancelled"}
TrialStatus == {"pending", "running", "completed", "failed"}
MetricNames ==
    {"total_return", "sharpe_ratio", "max_drawdown", "volatility", "win_rate"}
Objectives == {0, 1}

(* the metric maps the simulated execution of a trial may draw *)
SimulatedMetrics == { [ m \in MetricNames |-> v ] : v \in Objectives }

(* A float is a fixed-point number counted in the last digit that          *)
(* round(x, 6) keeps: 1.0 is Micro.  An int and a str are themselves.       *)
ParameterDef(name, kind, low, high, values) ==
    [ name |-> name, kind |-> kind, low |-> low, high |-> high,
      values |-> values ]

SearchSpace ==
    << ParameterDef("x", "int_range", Some(Micro), Some(Micro), None) >>

OptRequests ==
    { [ name |-> "opt", strategy |-> "random", max_trials |-> m,
        concurrency |-> c, objective_metric |-> "sharpe_ratio",
        direction |-> d, search_space |-> SearchSpace, grid_steps |-> 2 ] :
      m \in 1..MaxTrials, c \in 1..MaxConcurrency,
      d \in {"maximize", "minimize"} }

TrialRecord(trial_id, trial_number, parameters) ==
    [ trial_id |-> trial_id, trial_number |-> trial_number,
      parameters |-> parameters, status |-> "pending", objective |-> None,
      metrics |-> <<>>, duration_seconds |-> None, error |-> None,
      started_at |-> None, finished_at |-> None ]

OptimizationRecord(optimization_id, request, t) ==
    [ optimization_id |-> optimization_id, request |-> request,
      state |-> "pending", trials |-> <<>>, best_trial |-> None,
      created_at |-> t, started_at |-> None, finished_at |-> None,
      error |-> None ]

(* int(x): the float x truncated toward zero *)
int(x) == IF x >= 0 THEN x \div Micro ELSE 0 - ((0 - x) \div Micro)

(* round(num / den, 6) for den > 0: to the nearest unit, a tie to the even one *)
round6(num, den) ==
    LET q == num \div den
        r == num - q * den
    IN  IF 2 * r < den THEN q
        ELSE IF 2 * r > den THEN q + 1
        ELSE IF q % 2 = 0 THEN q ELSE q + 1

RECURSIVE Pow(_, _)
Pow(a, n) == IF n = 0 THEN 1 ELSE a * Pow(a, n - 1)

(* round(exp(log_low + i * (log_high - log_low) / n), 6): the n-th root of *)
(* low^(n-i) * high^i, to the nearest unit                                 *)
log_point(low, high, i, n) ==
    LET P == Pow(low, n - i) * Pow(high, i)
    IN  CHOOSE v \in Min(low, high)..Max(low, high) :
            /\ Pow(2 * v - 1, n) <= Pow(2, n) * P
            /\ Pow(2, n) * P < Pow(2 * v + 1, n)

(* _sample_parameter raises: TypeError on a missing bound or list,         *)
(* ValueError from randint on an empty range and from math.log on a bound  *)
(* that is not positive, IndexError from random.choice on an empty list    *)
_sample_parameter_raises(param) ==
    IF param.kind = "choice"
    THEN param.values = None \/ param.values[1] = <<>>
    ELSE \/ param.low = None
         \/ param.high = None
         \/ param.kind = "int_range" /\ int(param.low[1]) > int(param.high[1])
         \/ param.kind = "log_uniform"
                /\ (param.low[1] <= 0 \/ param.high[1] <= 0)

to_summary(trial) ==
    [ trial_id |-> trial.trial_id, trial_number |-> trial.trial_number,
      status |-> trial.status, parameters |-> trial.parameters,
      objective |-> trial.objective, metrics |-> trial.metrics,
      duration_seconds |-> trial.duration_seconds, error |-> trial.error ]

to_result(record) ==
    [ optimization_id |-> record.optimization_id,
      state |-> record.state,
      best_trial |->
          IF record.best_trial # None
          THEN Some(to_summary(record.trials[record.best_trial[1] + 1]))
          ELSE None,
      all_trials |->
          [ i \in 1..Len(record.trials) |-> to_summary(record.trials[i]) ],
      total_duration_seconds |->
          IF record.started_at # None /\ record.finished_at # None
          THEN Some(record.finished_at[1] - record.started_at[1])
          ELSE None,
      search_space |-> record.request.search_space ]

(* the values _sample_parameter may return *)
_sample_parameter(param) ==
    IF param.kind = "int_range"
    THEN int(param.low[1])..int(param.high[1])
    ELSE IF param.kind = "choice"
    THEN { param.values[1][i] : i \in 1..Len(param.values[1]) }
    ELSE Min(param.low[1], param.high[1])..Max(param.low[1], param.high[1])

(* _grid_values raises: TypeError on a missing bound or list, ValueError   *)
(* from math.log on a bound that is not positive                           *)
_grid_values_raises(param) ==
    IF param.kind = "choice"
    THEN param.values = None
    ELSE \/ param.low = None
         \/ param.high = None
         \/ param.kind = "log_uniform"
                /\ (param.low[1] <= 0 \/ param.high[1] <= 0)

_grid_values(param, steps) ==
    IF param.kind = "int_range"
    THEN LET low == int(param.low[1])
             high == int(param.high[1])
         IN  [ i \in 1..Max(0, high - low + 1) |-> low + i - 1 ]
    ELSE IF param.kind = "float_range"
    THEN [ i \in 1..steps |->
             round6(param.low[1] * (steps - 1)
                        + (i - 1) * (param.high[1] - param.low[1]),
                    steps - 1) ]
    ELSE IF param.kind = "log_uniform"
    THEN [ i \in 1..steps |->
             log_point(param.low[1], param.high[1], i - 1, steps - 1) ]
    ELSE param.values[1]

RECURSIVE Flatten(_)
Flatten(seqs) ==
    IF seqs = <<>> THEN <<>> ELSE Head(seqs) \o Flatten(Tail(seqs))

(* the product with the first axis varying fastest *)
RECURSIVE Product_first_fastest(_)
Product_first_fastest(axes) ==
    IF axes = <<>>
    THEN << <<>> >>
    ELSE LET front == Product_first_fastest(SubSeq(axes, 1, Len(axes) - 1))
             last == axes[Len(axes)]
         IN  Flatten([ i \in 1..Len(last) |->
                         [ j \in 1..Len(front) |-> front[j] \o <<last[i]>> ] ])

(* itertools.product over the axes: the last axis varies fastest *)
RECURSIVE Product(_)
Product(axes) ==
    IF axes = <<>>
    THEN << <<>> >>
    ELSE LET rest == Product(Tail(axes))
             first == Head(axes)
         IN  Flatten([ i \in 1..Len(first) |->
                         [ j \in 1..Len(rest) |-> <<first[i]>> \o rest[j] ] ])

(* dict(zip(names, vals)) *)
Zip(names, vals) ==
    [ n \in { names[i] : i \in 1..Len(names) } |->
        vals[CHOOSE i \in 1..Len(names) :
                 /\ names[i] = n
                 /\ \A j \in 1..Len(names) : names[j] = n => j <= i] ]

(* _generate_grid_combos without the slice [: request.max_trials] *)
_generate_grid_combos_untruncated(request) ==
    LET params == request.search_space
        names == [ i \in 1..Len(params) |-> params[i].name ]
        axes == [ i \in 1..Len(params) |->
                    _grid_values(params[i], request.grid_steps) ]
        product == Product(axes)
    IN  [ i \in 1..Len(product) |-> Zip(names, product[i]) ]

_generate_grid_combos(request) ==
    LET params == request.search_space
        names == [ i \in 1..Len(params) |-> params[i].name ]
        axes == [ i \in 1..Len(params) |->
                    _grid_values(params[i], request.grid_steps) ]
        product == Product(axes)
        combos == [ i \in 1..Len(product) |-> Zip(names, product[i]) ]
    IN  SubSeq(combos, 1, Min(Len(combos), request.max_trials))

(* params[name] = value on the dict d *)
Put(d, name, value) ==
    [ n \in DOMAIN d \cup {name} |-> IF n = name THEN value ELSE d[n] ]

(* the dicts one pass over the parameters may build *)
RECURSIVE Draws(_)
Draws(params) ==
    IF params = <<>>
    THEN { <<>> }
    ELSE LET last == params[Len(params)]
         IN  { Put(d, last.name, v) :
                   d \in Draws(SubSeq(params, 1, Len(params) - 1)),
                   v \in _sample_parameter(last) }

_generate_trial_params_raises(request, count) ==
    IF request.strategy = "grid"
    THEN \E i \in 1..Len(request.search_space) :
             _grid_values_raises(request.search_space[i])
    ELSE /\ count > 0
         /\ \E i \in 1..Len(request.search_space) :
                _sample_parameter_raises(request.search_space[i])

(* the parameter lists _generate_trial_params may return *)
_generate_trial_params(request, count) ==
    IF request.strategy = "grid"
    THEN { _generate_grid_combos(request) }
    ELSE [ 1..count -> Draws(request.search_space) ]

Or0(objective) == IF objective = None THEN 0 ELSE objective[1]

(* record.best_trial is a reference to a trial of record.trials: its number *)
BestObjective(record) ==
    record.trials[record.best_trial[1] + 1].objective

(* is_better with >= and <= : a tie replaces the incumbent *)
is_better_or_equal(direction, objective, best) ==
    \/ direction = "maximize" /\ Or0(objective) >= Or0(best)
    \/ direction = "minimize" /\ Or0(objective) <= Or0(best)

is_better(direction, objective, best) ==
    \/ direction = "maximize" /\ Or0(objective) > Or0(best)
    \/ direction = "minimize" /\ Or0(objective) < Or0(best)

(* a trial whose losing objective is recorded as a failure *)
complete_trial_fails(record, n, metrics, t) ==
    LET obj_metric == record.request.objective_metric
        objective == IF obj_metric \in DOMAIN metrics
                     THEN Some(metrics[obj_metric]) ELSE Some(0)
        trial == [ record.trials[n + 1] EXCEPT
                     !.metrics = metrics, !.objective = objective,
                     !.finished_at = Some(t), !.duration_seconds = Some(1) ]
    IN  IF record.best_trial = None
        THEN [ record EXCEPT !.trials[n + 1] =
                                 [ trial EXCEPT !.status = "completed" ],
                             !.best_trial = Some(n) ]
        ELSE IF is_better(record.request.direction, objective,
                          BestObjective(record))
             THEN [ record EXCEPT !.trials[n + 1] =
                                      [ trial EXCEPT !.status = "completed" ],
                                  !.best_trial = Some(n) ]
             ELSE [ record EXCEPT !.trials[n + 1] =
                                      [ trial EXCEPT !.status = "failed" ] ]

(* lines 281-309: trial number n of record completes with these metrics *)
complete_trial(record, n, metrics, t) ==
    LET obj_metric == record.request.objective_metric
        objective == IF obj_metric \in DOMAIN metrics
                     THEN Some(metrics[obj_metric]) ELSE Some(0)
        trial == [ record.trials[n + 1] EXCEPT
                     !.metrics = metrics, !.objective = objective,
                     !.status = "completed", !.finished_at = Some(t),
                     !.duration_seconds = Some(1) ]
        rec == [ record EXCEPT !.trials[n + 1] = trial ]
    IN  IF record.best_trial = None
        THEN [ rec EXCEPT !.best_trial = Some(n) ]
        ELSE IF is_better(record.request.direction, objective,
                          BestObjective(record))
             THEN [ rec EXCEPT !.best_trial = Some(n) ]
             ELSE rec

(* lines 279-309: the trials numbered from..to-1 complete, in order *)
RECURSIVE complete_batch(_, _, _, _, _)
complete_batch(record, from, to, draws, t) ==
    IF from >= to
    THEN record
    ELSE complete_batch(complete_trial(record, from, draws[from], t),
                        from + 1, to, draws, t)

(* lines 270-273: the trials numbered from..to-1 become running *)
mark_running(record, from, to, t) ==
    [ record EXCEPT !.trials =
        [ i \in 1..Len(record.trials) |->
            IF i - 1 >= from /\ i - 1 < to
            THEN [ record.trials[i] EXCEPT !.status = "running",
                                           !.started_at = Some(t) ]
            ELSE record.trials[i] ] ]

(* a slice that takes one trial more than the batch size *)
batch_end_overlong(record, batch_start) ==
    Min(batch_start + record.request.concurrency + 1, Len(record.trials))

(* trials[batch_start : batch_start + batch_size] ends before this number *)
batch_end(record, batch_start) ==
    Min(batch_start + record.request.concurrency, Len(record.trials))

(* lines 311-315: the loop is over *)
mark_completed(record, t) ==
    IF record.state = "running"
    THEN [ record EXCEPT !.state = "completed", !.finished_at = Some(t) ]
    ELSE record

(* the head of the loop without the cancellation check of lines 263-265 *)
loop_head_unchecked(opt_id, record, batch_start) ==
    IF batch_start >= Len(record.trials)
    THEN /\ opts' = [ opts EXCEPT ![opt_id] = mark_completed(record, now) ]
         /\ sched' = [ sched EXCEPT ![opt_id] =
                         [ pc |-> "done", batch_start |-> batch_start ] ]
    ELSE /\ opts' = [ opts EXCEPT ![opt_id] =
                        mark_running(record, batch_start,
                                     batch_end(record, batch_start), now) ]
         /\ sched' = [ sched EXCEPT ![opt_id] =
                         [ pc |-> "sleep", batch_start |-> batch_start ] ]

(* lines 261-276 and 311-315: the head of the loop for batch_start, up to  *)
(* the sleep of that batch or the return of the coroutine                  *)
loop_head(opt_id, record, batch_start) ==
    IF batch_start >= Len(record.trials)
    THEN /\ opts' = [ opts EXCEPT ![opt_id] = mark_completed(record, now) ]
         /\ sched' = [ sched EXCEPT ![opt_id] =
                         [ pc |-> "done", batch_start |-> batch_start ] ]
    ELSE IF record.state = "cancelled"
    THEN /\ opts' = [ opts EXCEPT ![opt_id] = record ]
         /\ sched' = [ sched EXCEPT ![opt_id] =
                         [ pc |-> "done", batch_start |-> batch_start ] ]
    ELSE /\ opts' = [ opts EXCEPT ![opt_id] =
                        mark_running(record, batch_start,
                                     batch_end(record, batch_start), now) ]
         /\ sched' = [ sched EXCEPT ![opt_id] =
                         [ pc |-> "sleep", batch_start |-> batch_start ] ]

(* a record set up with its first trial as the incumbent best trial *)
start_record_seeded(record, opt_id, all_params, t) ==
    [ record EXCEPT
        !.state = "running",
        !.started_at = Some(t),
        !.best_trial = Some(0),
        !.trials = [ i \in 1..Len(all_params) |->
                       TrialRecord(<<opt_id, i - 1>>, i - 1, all_params[i]) ] ]

(* lines 236-257: the record as run_optimization sets it up *)
start_record(record, opt_id, all_params, t) ==
    [ record EXCEPT
        !.state = "running",
        !.started_at = Some(t),
        !.trials = [ i \in 1..Len(all_params) |->
                       TrialRecord(<<opt_id, i - 1>>, i - 1, all_params[i]) ] ]

create(opt_id, request) ==
    /\ opt_id \notin DOMAIN opts
    /\ opts' = [ o \in DOMAIN opts \cup {opt_id} |->
                   IF o = opt_id
                   THEN OptimizationRecord(opt_id, request, now)
                   ELSE opts[o] ]
    /\ UNCHANGED <<now, sched, cancels, refused, runVars, tasks, streams, limVars, lockVars>>

(* OptimizationStore.get_result *)
OptimizationStore_get_result(opt_id) ==
    IF opt_id \in DOMAIN opts THEN Some(to_result(opts[opt_id])) ELSE None

(* the endpoint answering 409 for an unknown id as well *)
get_optimization_results_conflated(opt_id) ==
    LET result == OptimizationStore_get_result(opt_id)
    IN  IF result = None
        THEN [ status_code |-> 409,
               detail |-> "Optimization not yet completed" ]
        ELSE IF result[1].state \notin {"completed", "cancelled"}
        THEN [ status_code |-> 409,
               detail |-> "Optimization not yet completed" ]
        ELSE [ status_code |-> 200, body |-> result[1] ]

(* GET /optimizations/{opt_id}/results: the response of the endpoint *)
get_optimization_results(opt_id) ==
    LET result == OptimizationStore_get_result(opt_id)
    IN  IF result = None
        THEN [ status_code |-> 404, detail |-> "Optimization not found" ]
        ELSE IF result[1].state \notin {"completed", "cancelled"}
        THEN [ status_code |-> 409,
               detail |-> "Optimization not yet completed" ]
        ELSE [ status_code |-> 200, body |-> result[1] ]

(* cancel that refuses a finished optimization only, not a cancelled one *)
cancel_result_finished_only(opt_id) ==
    /\ opt_id \in DOMAIN opts
    /\ opts[opt_id].state \notin {"completed", "failed"}

(* what cancel(opt_id) returns *)
cancel_result(opt_id) ==
    /\ opt_id \in DOMAIN opts
    /\ opts[opt_id].state \notin {"completed", "failed", "cancelled"}

CompletedTrials(record) ==
    { i \in 1..Len(record.trials) : record.trials[i].status = "completed" }

cancel(opt_id) ==
    /\ IF cancel_result(opt_id)
       THEN /\ opts' = [ opts EXCEPT ![opt_id].state = "cancelled",
                                     ![opt_id].finished_at = Some(now) ]
            /\ cancels' = [ cancels EXCEPT ![opt_id] =
                   Append(@, [ pc |-> sched[opt_id].pc,
                               completed |->
                                   Cardinality(CompletedTrials(opts[opt_id])) ]) ]
            /\ UNCHANGED refused
       ELSE /\ refused' = [ refused EXCEPT ![opt_id] = TRUE ]
            /\ UNCHANGED <<opts, cancels>>
    /\ UNCHANGED <<now, sched, runVars, tasks, streams, limVars, lockVars>>

(* lines 236-244: the task dies with the exception _generate_trial_params *)
(* raised; nothing in run_optimization or its caller catches it            *)
generation_raised(opt_id, record, t) ==
    /\ opts' = [ opts EXCEPT ![opt_id] =
                   [ record EXCEPT !.state = "running",
                                   !.started_at = Some(t) ] ]
    /\ sched' = [ sched EXCEPT ![opt_id] =
                    [ pc |-> "raised", batch_start |-> 0 ] ]

(* run_optimization from its call to the first asyncio.sleep *)
run_optimization_start(opt_id) ==
    /\ sched[opt_id].pc = "idle"
    /\ IF opt_id \notin DOMAIN opts
       THEN UNCHANGED <<opts, sched>>
       ELSE IF _generate_trial_params_raises(opts[opt_id].request,
                                             opts[opt_id].request.max_trials)
       THEN generation_raised(opt_id, opts[opt_id], now)
       ELSE \E all_params \in
                _generate_trial_params(opts[opt_id].request,
                                       opts[opt_id].request.max_trials) :
                loop_head(opt_id,
                          start_record(opts[opt_id], opt_id, all_params, now),
                          0)
    /\ UNCHANGED <<now, cancels, refused, runVars, tasks, streams, limVars, lockVars>>

(* run_optimization from the end of a sleep to the next sleep or the return *)
run_optimization_resume(opt_id) ==
    /\ sched[opt_id].pc = "sleep"
    /\ LET from == sched[opt_id].batch_start
           to == batch_end(opts[opt_id], from)
       IN  \E draws \in [ from..to - 1 -> SimulatedMetrics ] :
               loop_head(opt_id,
                         complete_batch(opts[opt_id], from, to, draws, now),
                         from + opts[opt_id].request.concurrency)
    /\ UNCHANGED <<now, cancels, refused, runVars, tasks, streams, limVars, lockVars>>

----------------------------------------------------------------------------
(* MockEngineAdapter *)

TotalSteps == 5

(* a datetime of a request: whether it carries a timezone, and whether it  *)
(* falls on the last day datetime can hold                                 *)
Datetimes == [ aware : BOOLEAN, last : BOOLEAN ]

BacktestRequest(start_date, end_date) ==
    [ initial_capital |-> 1000000, start_date |-> start_date,
      end_date |-> end_date ]

BacktestRequests ==
    { BacktestRequest([ aware |-> TRUE, last |-> FALSE ],
                      [ aware |-> TRUE, last |-> FALSE ]),
      BacktestRequest([ aware |-> FALSE, last |-> FALSE ],
                      [ aware |-> TRUE, last |-> FALSE ]),
      BacktestRequest([ aware |-> TRUE, last |-> TRUE ],
                      [ aware |-> TRUE, last |-> TRUE ]) }

(* what _build_sample_results raises, None when it returns: end_date -     *)
(* start_date is a TypeError between a naive and an aware datetime, and    *)
(* start_date + timedelta(days=1), computed for every request since        *)
(* steps >= 2, is an OverflowError on the last day                         *)
_build_sample_results_raises(request) ==
    IF request.start_date.aware # request.end_date.aware
    THEN Some("can't subtract offset-naive and offset-aware datetimes")
    ELSE IF request.start_date.last
         THEN Some("date value out of range")
         ELSE None

BacktestResult(run_id) ==
    [ run_id |-> run_id, trades |-> <<>>, exposures |-> <<>>,
      logs |-> << "Mock run completed" >> ]

(* f"Step {step}/{total_steps}" *)
step_message(step) ==
    "Step " \o ToString(step) \o "/" \o ToString(TotalSteps)

Task(pc, step) == [ pc |-> pc, step |-> step ]

(* the store after update_progress(run_id, step / total_steps, message) *)
progressed(run_id, step) ==
    LET progress == (step * ProgressOne) \div TotalSteps
        message == Some(step_message(step))
        rs == [ runs EXCEPT ![run_id].status.progress = clamp(progress) ]
        payload == progress_payload(progress, message)
    IN  [ runs |-> _publish_event(rs, run_id, "progress", payload, now),
          queues |-> _publish_fanout(rs, queues, run_id, "progress", payload, now) ]

(* the store after set_result(run_id, result) on the store st *)
completed(st, run_id, result) ==
    LET rs1 == [ st.runs EXCEPT ![run_id].result = Some(result) ]
        rs2 == set_state(rs1, run_id, "completed", None, now)
        payload == state_payload("completed", None)
    IN  [ runs |-> _publish_event(rs2, run_id, "state", payload, now),
          queues |-> _publish_fanout(rs2, st.queues, run_id, "state", payload, now) ]

(* an adapter whose exception escapes run and ends the task *)
excepted_uncaught(st, run_id, exc) == st

(* except Exception as exc: update_state(run_id, failed, error=str(exc)) *)
excepted(st, run_id, exc) ==
    LET rs == set_state(st.runs, run_id, "failed", Some(exc), now)
        payload == state_payload("failed", Some(exc))
    IN  [ runs |-> _publish_event(rs, run_id, "state", payload, now),
          queues |-> _publish_fanout(rs, st.queues, run_id, "state", payload, now) ]

(* POST /backtests: the run is created and its adapter task scheduled *)
create_backtest(run_id, request) ==
    /\ create_run_call(run_id, request)
    /\ tasks' = [ r \in DOMAIN tasks \cup {run_id} |->
                    IF r = run_id THEN Task("start", 0) ELSE tasks[r] ]
    /\ UNCHANGED <<now, optVars, streams, limVars, lockVars>>

(* MockEngineAdapter.run from its start to the first sleep *)
adapter_start(run_id) ==
    /\ run_id \in DOMAIN tasks
    /\ tasks[run_id].pc = "start"
    /\ update_state_call(run_id, "running", None)
    /\ tasks' = [ tasks EXCEPT ![run_id] = Task("sleep", 1) ]
    /\ UNCHANGED <<now, optVars, streams, limVars, lockVars>>

(* a sleep ends, progress is published and the next sleep begins *)
adapter_step(run_id) ==
    /\ run_id \in DOMAIN tasks
    /\ tasks[run_id].pc = "sleep"
    /\ tasks[run_id].step < TotalSteps
    /\ update_progress_call(run_id,
                            (tasks[run_id].step * ProgressOne) \div TotalSteps,
                            Some(step_message(tasks[run_id].step)))
    /\ tasks' = [ tasks EXCEPT ![run_id].step = @ + 1 ]
    /\ UNCHANGED <<now, optVars, streams, limVars, lockVars>>

(* the last sleep ends: the last progress, the results, and set_result or  *)
(* the except clause, with no suspension in between                        *)
adapter_finish(run_id) ==
    /\ run_id \in DOMAIN tasks
    /\ tasks[run_id].pc = "sleep"
    /\ tasks[run_id].step = TotalSteps
    /\ LET st == progressed(run_id, TotalSteps)
           exc == _build_sample_results_raises(runs[run_id].request)
           end == IF exc = None
                  THEN completed(st, run_id, BacktestResult(run_id))
                  ELSE excepted(st, run_id, exc[1])
       IN  /\ runs' = end.runs
           /\ queues' = end.queues
    /\ Observe
    /\ UNCHANGED ignored
    /\ tasks' = [ tasks EXCEPT ![run_id].pc = "done" ]
    /\ UNCHANGED <<now, optVars, streams, limVars, lockVars>>

(* the event loop runs the task of run_id *)
adapter_run(run_id) ==
    \/ adapter_start(run_id)
    \/ adapter_step(run_id)
    \/ adapter_finish(run_id)

----------------------------------------------------------------------------
(* stream_backtest *)

(* A handler runs from one suspension to the next: websocket.accept, every *)
(* websocket.send_json, and queue.get on an empty queue.  What send_json   *)
(* does is decided outside this repository: it returns or it raises.       *)
StreamIds == 1..MaxStreams

Stream(pc, run_id, last_event_id, pending, queue, sent, disconnect_reason) ==
    [ pc |-> pc, run_id |-> run_id, last_event_id |-> last_event_id,
      pending |-> pending, queue |-> queue, sent |-> sent,
      disconnect_reason |-> disconnect_reason ]

(* the handler returns or raises: the finally block has run *)
ended(stream, disconnect_reason) ==
    [ stream EXCEPT !.pc = "ended", !.pending = <<>>,
                    !.disconnect_reason = disconnect_reason ]

(* the handler suspended in websocket.send_json(pending[1]) *)
sending(stream, pending) ==
    [ stream EXCEPT !.pc = "sending", !.pending = pending ]

(* the handler suspended in queue.get() *)
waiting(stream) == [ stream EXCEPT !.pc = "waiting", !.pending = <<>> ]

(* a finally block that forgets the queue *)
finally_leaks(stream) ==
    UNCHANGED <<runs, queues, delivered, ignored>>

(* finally: if queue: await store.unsubscribe(run_id, queue) *)
finally(stream) ==
    IF stream.queue # None
    THEN unsubscribe_call(stream.run_id, stream.queue[1])
    ELSE UNCHANGED <<runs, queues, delivered, ignored>>

(* lines 280-294: subscribe, then the first queue.get() *)
subscribe_and_wait(h, stream) ==
    /\ subscribe_call(stream.run_id)
    /\ streams' =
           [ streams EXCEPT ![h] =
               IF stream.run_id \in DOMAIN runs
               THEN waiting([ stream EXCEPT
                                !.queue = Some(Cardinality(DOMAIN queues) + 1) ])
               ELSE ended(stream, "subscribe_failed") ]

(* lines 234-251: the key is checked and the socket accepted *)
stream_connect(h, run_id, last_event_id, authorized) ==
    /\ h \notin DOMAIN streams
    /\ LET stream == Stream("accepting", run_id, last_event_id, <<>>, None,
                            <<>>, "server")
       IN  streams' = [ k \in DOMAIN streams \cup {h} |->
                          IF k # h
                          THEN streams[k]
                          ELSE IF authorized
                               THEN stream
                               ELSE ended(stream, "rejected") ]
    /\ UNCHANGED <<now, runVars, optVars, tasks, limVars, lockVars>>

(* lines 262-280: the run is looked up and the backlog read; the first     *)
(* send begins, or with nothing to replay the handler subscribes at once   *)
stream_accepted(h) ==
    /\ h \in DOMAIN streams
    /\ streams[h].pc = "accepting"
    /\ LET stream == streams[h]
           backlog == get_events_after(stream.run_id, stream.last_event_id)
       IN  IF get_status(stream.run_id) = None
           THEN /\ streams' = [ streams EXCEPT ![h] =
                                  ended(stream, "run_not_found") ]
                /\ UNCHANGED runVars
           ELSE IF backlog # <<>>
           THEN /\ streams' = [ streams EXCEPT ![h] = sending(stream, backlog) ]
                /\ UNCHANGED runVars
           ELSE subscribe_and_wait(h, stream)
    /\ UNCHANGED <<now, optVars, tasks, limVars, lockVars>>

(* a send_json returned: the next event of the backlog is sent, or the     *)
(* handler subscribes, or it takes the next event of its queue             *)
stream_sent(h) ==
    /\ h \in DOMAIN streams
    /\ streams[h].pc = "sending"
    /\ LET stream == [ streams[h] EXCEPT
                         !.sent = Append(@, Head(streams[h].pending).event_id) ]
           rest == Tail(streams[h].pending)
       IN  IF rest # <<>>
           THEN /\ streams' = [ streams EXCEPT ![h] = sending(stream, rest) ]
                /\ UNCHANGED runVars
           ELSE IF stream.queue = None
           THEN subscribe_and_wait(h, stream)
           ELSE IF queues[stream.queue[1]] # <<>>
           THEN /\ queue_get_call(stream.queue[1])
                /\ streams' = [ streams EXCEPT ![h] =
                       sending(stream, << Head(queues[stream.queue[1]]) >>) ]
           ELSE /\ streams' = [ streams EXCEPT ![h] = waiting(stream) ]
                /\ UNCHANGED runVars
    /\ UNCHANGED <<now, optVars, tasks, limVars, lockVars>>

(* a send_json raised, WebSocketDisconnect ("client") or anything else     *)
(* ("server"): the finally block runs and the handler ends                 *)
stream_raised(h, disconnect_reason) ==
    /\ h \in DOMAIN streams
    /\ streams[h].pc = "sending"
    /\ finally(streams[h])
    /\ streams' = [ streams EXCEPT ![h] = ended(streams[h], disconnect_reason) ]
    /\ UNCHANGED <<now, optVars, tasks, limVars, lockVars>>

(* the handler's task is cancelled while it waits in queue.get(): the     *)
(* CancelledError passes the except clause and the finally block runs      *)
stream_cancelled(h) ==
    /\ h \in DOMAIN streams
    /\ streams[h].pc = "waiting"
    /\ finally(streams[h])
    /\ streams' = [ streams EXCEPT ![h] = ended(streams[h], "cancelled") ]
    /\ UNCHANGED <<now, optVars, tasks, limVars, lockVars>>

(* queue.get() returns the event a publisher put on the queue *)
stream_wake(h) ==
    /\ h \in DOMAIN streams
    /\ streams[h].pc = "waiting"
    /\ queue_get_call(streams[h].queue[1])
    /\ streams' = [ streams EXCEPT ![h] =
           sending(streams[h], << Head(queues[streams[h].queue[1]]) >>) ]
    /\ UNCHANGED <<now, optVars, tasks, limVars, lockVars>>

----------------------------------------------------------------------------
(* The locks of the two stores *)

(* A coroutine is the sequence of its lock acquisitions, lock releases and *)
(* awaits of external work, in program order; what it does to the tables   *)
(* in between is left out here.                                            *)
Instr(op, arg) == [ op |-> op, arg |-> arg ]

(* async with self._lock: a block without an await inside *)
Locked(lock) == << Instr("acquire", lock), Instr("release", lock) >>

(* await asyncio.sleep / websocket.accept / websocket.send_json / queue.get *)
Await(what) == << Instr("await", what) >>

RECURSIVE Repeat(_, _)
Repeat(code, n) == IF n = 0 THEN <<>> ELSE code \o Repeat(code, n - 1)

_publish_event_code == Locked("runs")
create_run_code == Locked("runs") \o _publish_event_code
update_state_code == Locked("runs") \o _publish_event_code
update_progress_code == Locked("runs") \o _publish_event_code
set_result_code == Locked("runs") \o update_state_code

(* MockEngineAdapter.run; the except clause is one more update_state *)
adapter_code(raises) ==
    update_state_code
    \o Repeat(Await("sleep") \o update_progress_code, TotalSteps)
    \o (IF raises THEN update_state_code ELSE set_result_code)

(* a batch whose simulated work is awaited inside the locked block *)
batch_code_sleeps_locked ==
    Locked("opts")
    \o << Instr("acquire", "opts") >> \o Await("sleep")
    \o << Instr("release", "opts") >>
    \o Locked("opts")

(* lines 261-309: cancellation check, mark running, sleep, complete *)
batch_code ==
    Locked("opts") \o Locked("opts") \o Await("sleep") \o Locked("opts")

(* OptimizationStore.run_optimization over a number of batches *)
run_optimization_code(batches) ==
    Locked("opts") \o Locked("opts") \o Repeat(batch_code, batches)
    \o Locked("opts")

(* the finally block of stream_backtest, entered with a queue *)
finally_code == Locked("runs")

(* stream_backtest: accept, get_status, get_events_after, the backlog,     *)
(* subscribe, and the loop of queue.get and send_json                      *)
stream_code(backlog, live) ==
    Await("accept") \o Locked("runs") \o Locked("runs")
    \o Repeat(Await("send"), backlog)
    \o Locked("runs")
    \o Repeat(Await("get") \o Await("send"), live)
    \o finally_code

(* the endpoints create_backtest, get_backtest and cancel_optimization *)
client_code ==
    { create_run_code, Locked("runs"), Locked("opts") }

CoroNames == {"adapter", "optimizer", "stream", "client"}

Codes(name) ==
    CASE name = "adapter" -> { adapter_code(raises) : raises \in BOOLEAN }
      [] name = "optimizer" ->
             { run_optimization_code(batches) : batches \in 0..MaxTrials }
      [] name = "stream" ->
             { stream_code(backlog, MaxEvents) : backlog \in 0..MaxEvents }
      [] OTHER -> client_code

(* the coroutine runs from instruction i until it has to suspend: at an    *)
(* await, at the acquire of a lock that is held, or at its end             *)
RECURSIVE RunFrom(_, _, _, _)
RunFrom(code, i, locks, name) ==
    IF i > Len(code)
    THEN [ pc |-> i, held |-> locks ]
    ELSE IF code[i].op = "await"
    THEN [ pc |-> i, held |-> locks ]
    ELSE IF code[i].op = "release"
    THEN RunFrom(code, i + 1, [ locks EXCEPT ![code[i].arg] = None ], name)
    ELSE IF locks[code[i].arg] = None
    THEN RunFrom(code, i + 1, [ locks EXCEPT ![code[i].arg] = Some(name) ], name)
    ELSE [ pc |-> i, held |-> locks ]

(* asyncio.create_task: the coroutine is scheduled, not yet run *)
spawn(name, code) ==
    /\ name \notin DOMAIN coros
    /\ coros' = [ c \in DOMAIN coros \cup {name} |->
                    IF c = name THEN [ code |-> code, pc |-> 0 ] ELSE coros[c] ]
    /\ UNCHANGED <<now, runVars, optVars, tasks, streams, limVars, held>>

(* the event loop runs a coroutine that is ready: it was just scheduled,   *)
(* what it awaited is over, or the lock it waits for is free               *)
resume(name) ==
    /\ name \in DOMAIN coros
    /\ coros[name].pc <= Len(coros[name].code)
    /\ LET code == coros[name].code
           pc == coros[name].pc
           from == IF pc > 0 /\ code[pc].op = "acquire" THEN pc ELSE pc + 1
           next == RunFrom(code, from, held, name)
       IN  /\ pc > 0 /\ code[pc].op = "acquire" => held[code[pc].arg] = None
           /\ coros' = [ coros EXCEPT ![name].pc = next.pc ]
           /\ held' = next.held
    /\ UNCHANGED <<now, runVars, optVars, tasks, streams, limVars>>

(* websocket.send_json raises in the stream handler: its finally block runs *)
raise_in_send(name) ==
    /\ name \in DOMAIN coros
    /\ coros[name].pc \in 1..Len(coros[name].code)
    /\ coros[name].code[coros[name].pc] = Instr("await", "send")
    /\ LET code == coros[name].code
           subscribed == \E i \in 1..coros[name].pc :
                            code[i] = Instr("await", "get")
           from == IF subscribed
                   THEN Len(code) - Len(finally_code) + 1
                   ELSE Len(code) + 1
           next == RunFrom(code, from, held, name)
       IN  /\ coros' = [ coros EXCEPT ![name].pc = next.pc ]
           /\ held' = next.held
    /\ UNCHANGED <<now, runVars, optVars, tasks, streams, limVars>>

----------------------------------------------------------------------------
(* RateLimiter *)

(* GLOWBACK_RATE_LIMIT is MaxTokens and GLOWBACK_RATE_WINDOW is Window     *)
(* ticks of the monotonic clock.  bucket.tokens is a float: it is counted  *)
(* here in 1/Window of a token, so that the refill of one tick,            *)
(* MaxTokens / Window tokens, is the whole number MaxTokens.               *)
ClientIps == {"a", "b"}

Token == Window

Full == MaxTokens * Token

(* the bucket the defaultdict makes for a key it does not hold yet *)
_Bucket(t) == [ tokens |-> Full, last_refill |-> t ]

(* _refill without the min: the bucket grows past max_tokens *)
_refill_uncapped(bucket, t) ==
    [ tokens |-> bucket.tokens + (t - bucket.last_refill) * MaxTokens,
      last_refill |-> t ]

_refill(bucket, t) ==
    [ tokens |-> Min(Full, bucket.tokens + (t - bucket.last_refill) * MaxTokens),
      last_refill |-> t ]

(* the test written with > *)
has_token_strict(bucket) == bucket.tokens > Token

(* bucket.tokens >= 1 *)
has_token(bucket) == bucket.tokens >= Token

(* the headers check builds from the refilled bucket *)
headers(bucket) ==
    [ limit |-> MaxTokens,
      remaining |-> Max(0, bucket.tokens \div Token - 1),
      reset |-> bucket.last_refill + Window ]

(* self._buckets[client_ip] followed by self._refill(bucket) *)
refilled(client_ip) ==
    _refill(IF client_ip \in DOMAIN buckets
            THEN buckets[client_ip] ELSE _Bucket(mono),
            mono)

(* check on a limiter that takes the token from every client's bucket *)
check_shared(client_ip) ==
    /\ LET bucket == refilled(client_ip)
           allowed == has_token(bucket)
           after == IF allowed
                    THEN [ bucket EXCEPT !.tokens = @ - Token ]
                    ELSE bucket
           seen == IF client_ip \in DOMAIN checks
                   THEN checks[client_ip] ELSE <<>>
       IN  /\ buckets' = [ k \in DOMAIN buckets \cup {client_ip} |->
                             IF k = client_ip
                             THEN after
                             ELSE IF allowed
                             THEN [ buckets[k] EXCEPT
                                      !.tokens = Max(0, @ - Token) ]
                             ELSE buckets[k] ]
           /\ checks' = [ k \in DOMAIN checks \cup {client_ip} |->
                            IF k = client_ip
                            THEN Append(seen, [ allowed |-> allowed,
                                                headers |-> headers(bucket),
                                                t |-> mono ])
                            ELSE checks[k] ]
    /\ UNCHANGED <<now, mono, runVars, optVars, tasks, streams, lockVars>>

(* RateLimiter.check, under the limiter's lock *)
check(client_ip) ==
    /\ LET bucket == refilled(client_ip)
           allowed == has_token(bucket)
           after == IF allowed
                    THEN [ bucket EXCEPT !.tokens = @ - Token ]
                    ELSE bucket
           seen == IF client_ip \in DOMAIN checks
                   THEN checks[client_ip] ELSE <<>>
       IN  /\ buckets' = [ k \in DOMAIN buckets \cup {client_ip} |->
                             IF k = client_ip THEN after ELSE buckets[k] ]
           /\ checks' = [ k \in DOMAIN checks \cup {client_ip} |->
                            IF k = client_ip
                            THEN Append(seen, [ allowed |-> allowed,
                                                headers |-> headers(bucket),
                                                t |-> mono ])
                            ELSE checks[k] ]
    /\ UNCHANGED <<now, mono, runVars, optVars, tasks, streams, lockVars>>

(* the monotonic clock advances *)
Advance ==
    /\ mono < MaxMono
    /\ mono' = mono + 1
    /\ UNCHANGED <<now, buckets, checks, runVars, optVars, tasks, streams, lockVars>>

----------------------------------------------------------------------------

(* time passes *)
Tick ==
    /\ now < MaxTime
    /\ now' = now + 1
    /\ UNCHANGED <<runVars, optVars, tasks, streams, limVars, lockVars>>

----------------------------------------------------------------------------

Init ==
    /\ now = 0
    /\ runs = <<>>
    /\ queues = <<>>
    /\ ignored = {}
    /\ delivered = <<>>
    /\ opts = <<>>
    /\ sched = [ o \in OptIds |-> [ pc |-> "idle", batch_start |-> 0 ] ]
    /\ cancels = [ o \in OptIds |-> <<>> ]
    /\ refused = [ o \in OptIds |-> FALSE ]
    /\ tasks = <<>>
    /\ streams = <<>>
    /\ held = [ lock \in {"runs", "opts"} |-> None ]
    /\ coros = <<>>
    /\ mono = 0
    /\ buckets = <<>>
    /\ checks = <<>>

(* the number of events held by all logs together *)
TotalEvents ==
    Cardinality(UNION { { <<r, i>> : i \in 1..Len(runs[r].events) } :
                        r \in DOMAIN runs })

(* an operation on an existing run appends one event: room left for it *)
HasRoom(run_id, cap) ==
    run_id \in DOMAIN runs /\ TotalEvents < cap

(* the same, and a run id the store does not hold is admitted as well *)
HasRoomOrUnknown(run_id, cap) ==
    run_id \in DOMAIN runs => TotalEvents < cap

(* a Queue object can still be created (a bound of the model) *)
CanSubscribe(cap) == Cardinality(DOMAIN queues) < cap

(* the run store driven through its mutators, with every input *)
NextRun ==
    \/ \E r \in RunIds, req \in Requests :
           TotalEvents < MaxEvents /\ create_run(r, req)
    \/ \E r \in RunIds, s \in StateInputs :
           HasRoom(r, MaxEvents) /\ update_state(r, s[1], s[2])
    \/ \E r \in RunIds, p \in ProgressInputs :
           HasRoom(r, MaxEvents) /\ update_progress(r, p[1], p[2])
    \/ \E r \in RunIds, res \in Results :
           HasRoom(r, MaxEvents) /\ set_result(r, res)
    \/ Tick

(* the run store with observers: the publishers as the engine adapter     *)
(* calls them, and subscribers that come, read and go                     *)
NextPubSub ==
    \/ \E r \in RunIds, req \in Requests :
           TotalEvents < MaxEvents /\ create_run(r, req)
    \/ \E r \in RunIds :
           HasRoom(r, MaxEvents) /\ update_state(r, "running", None)
    \/ \E r \in RunIds :
           HasRoom(r, MaxEvents) /\ update_progress(r, 5, Some("Step"))
    \/ \E r \in RunIds :
           HasRoom(r, MaxEvents) /\ set_result(r, "R1")
    \/ \E r \in DOMAIN runs : CanSubscribe(MaxQueues) /\ subscribe(r)
    \/ \E r \in DOMAIN runs, q \in QueueIds : unsubscribe(r, q)
    \/ \E q \in QueueIds : queue_get(q)

SpecPubSub == Init /\ [][NextPubSub]_vars

(* the cursors observers connect with: none, and the first event *)
StreamCursors == { None, Some(1) }

(* one run that publishes while observers connect to the stream endpoint, *)
(* for that run or for a run id the store does not hold; unsubscribe is    *)
(* called again for a queue that is no longer registered, and for the run  *)
(* id the store does not hold                                              *)
NextStream ==
    \/ \E req \in Requests : TotalEvents < MaxEvents /\ create_run(1, req)
    \/ HasRoom(1, MaxEvents) /\ update_progress(1, 5, Some("Step"))
    \/ HasRoom(1, MaxEvents) /\ set_result(1, "R1")
    \/ \E h \in StreamIds, r \in {1, 2}, c \in StreamCursors, a \in BOOLEAN :
           stream_connect(h, r, c, a)
    \/ \E h \in StreamIds : stream_accepted(h)
    \/ \E h \in StreamIds : stream_sent(h)
    \/ \E h \in StreamIds, reason \in {"client", "server"} :
           stream_raised(h, reason)
    \/ \E h \in StreamIds : stream_wake(h)
    \/ \E h \in StreamIds : stream_cancelled(h)
    \/ \E r \in {1, 2}, q \in DOMAIN queues :
           /\ r \in DOMAIN runs => q \notin runs[r].subscribers
           /\ unsubscribe(r, q)

SpecStream == Init /\ [][NextStream]_vars

(* the adapter, the optimization loop, a stream handler and a client of   *)
(* the endpoints, scheduled by the event loop in any order                 *)
NextLocks ==
    \/ \E name \in CoroNames : \E code \in Codes(name) : spawn(name, code)
    \/ \E name \in CoroNames : resume(name)
    \/ \E name \in CoroNames : raise_in_send(name)

SpecLocks == Init /\ [][NextLocks]_vars

(* callers that also use run ids the store does not hold *)
NextUnknown ==
    \/ \E r \in RunIds, req \in Requests :
           TotalEvents < MaxEvents /\ create_run(r, req)
    \/ \E r \in RunIds \ DOMAIN runs : update_state(r, "running", None)
    \/ \E r \in RunIds :
           HasRoomOrUnknown(r, MaxEvents) /\ update_progress(r, 5, Some("Step"))
    \/ \E r \in RunIds \ DOMAIN runs : set_result(r, "R1")
    \/ \E r \in RunIds : CanSubscribe(MaxQueues) /\ subscribe(r)
    \/ \E r \in RunIds, q \in QueueIds : unsubscribe(r, q)

SpecUnknown == Init /\ [][NextUnknown]_vars

Spec == Init /\ [][NextRun]_vars

(* one run whose subscribers join early and never read, until a queue is full *)
NextOverflow ==
    \/ \E req \in Requests :
           TotalEvents < OverflowEvents /\ create_run(1, req)
    \/ /\ 1 \in DOMAIN runs
       /\ TotalEvents < OverflowEvents
       /\ update_progress(1, 5, Some("Step"))
    \/ /\ 1 \in DOMAIN runs
       /\ Len(runs[1].events) <= SubscribeBy
       /\ CanSubscribe(OverflowQueues)
       /\ \E r \in {1, 2} : subscribe(r)

SpecOverflow == Init /\ [][NextOverflow]_vars

(* the search spaces of the parameter generators: integer ranges with     *)
(* whole, fractional, negative and crossed bounds, choices with distinct,  *)
(* repeated, no and missing values, float and log ranges that are proper,  *)
(* degenerate, crossed, not positive or missing a bound, two parameters,   *)
(* and two parameters of one name                                          *)
GridSpaces ==
    { << ParameterDef("x", "int_range", Some(Micro), Some(2 * Micro), None) >>,
      << ParameterDef("x", "int_range", Some((3 * Micro) \div 2),
                      Some(3 * Micro), None) >>,
      << ParameterDef("x", "int_range", Some(0 - (3 * Micro) \div 2),
                      Some(Micro), None) >>,
      << ParameterDef("x", "int_range", Some(2 * Micro), Some(Micro), None) >>,
      << ParameterDef("x", "int_range", Some(Micro), Some(2 * Micro), None),
         ParameterDef("c", "choice", None, None, Some(<<"a", "b">>)) >>,
      << ParameterDef("x", "int_range", Some(Micro), Some(2 * Micro), None),
         ParameterDef("x", "choice", None, None, Some(<<"a">>)) >>,
      << ParameterDef("c", "choice", None, None, Some(<<"a", "a">>)) >>,
      << ParameterDef("c", "choice", None, None, Some(<<>>)) >>,
      << ParameterDef("c", "choice", None, None, None) >>,
      << ParameterDef("f", "float_range", Some(1), Some(3), None) >>,
      << ParameterDef("f", "float_range", Some(1), Some(2), None) >>,
      << ParameterDef("f", "float_range", Some(1), Some(1), None) >>,
      << ParameterDef("f", "float_range", Some(3), Some(1), None) >>,
      << ParameterDef("f", "float_range", None, Some(1), None) >>,
      << ParameterDef("g", "log_uniform", Some(1), Some(4), None) >>,
      << ParameterDef("g", "log_uniform", Some(0), Some(1), None) >> }

GridRequests ==
    { [ name |-> "opt", strategy |-> s, max_trials |-> m,
        concurrency |-> MaxConcurrency, objective_metric |-> "sharpe_ratio",
        direction |-> "maximize", search_space |-> space, grid_steps |-> g ] :
      s \in {"grid", "random", "bayesian"}, m \in 1..MaxTrials,
      space \in GridSpaces, g \in {2, 3} }

(* one optimization over any of the search spaces, up to its first batch *)
NextGrid ==
    \/ \E o \in OptIds, req \in GridRequests : opts = <<>> /\ create(o, req)
    \/ \E o \in OptIds : run_optimization_start(o)

SpecGrid == Init /\ [][NextGrid]_vars

(* clients post backtests and the event loop runs their tasks *)
NextAdapter ==
    \/ \E request \in BacktestRequests :
           /\ Cardinality(DOMAIN runs) < MaxRuns
           /\ create_backtest(Cardinality(DOMAIN runs) + 1, request)
    \/ \E run_id \in RunIds : adapter_run(run_id)

SpecAdapter == Init /\ [][NextAdapter]_vars

(* a task that is ready, or whose sleep is over, is run by the event loop *)
SpecAdapterFair ==
    SpecAdapter /\ \A run_id \in RunIds : WF_vars(adapter_run(run_id))

(* the calls a client has made so far *)
Calls(client_ip) ==
    IF client_ip \in DOMAIN checks THEN Len(checks[client_ip]) ELSE 0

(* requests of two clients arriving at the rate limiter as time passes *)
NextLimiter ==
    \/ \E client_ip \in ClientIps :
           Calls(client_ip) < MaxChecks /\ check(client_ip)
    \/ Advance

SpecLimiter == Init /\ [][NextLimiter]_vars

(* one optimization is created; the other id stays unknown to the store *)
NextOpt ==
    \/ \E o \in OptIds, req \in OptRequests : opts = <<>> /\ create(o, req)
    \/ \E o \in OptIds : run_optimization_start(o)
    \/ \E o \in OptIds : run_optimization_resume(o)
    \/ \E o \in OptIds : cancel(o)
    \/ Tick

SpecOpt == Init /\ [][NextOpt]_vars

(* search spaces the request model accepts and the generators cannot      *)
(* sample: a choice among no values, a log range from 0, a range without   *)
(* bounds                                                                  *)
UnsampleableSpaces ==
    { << ParameterDef("c", "choice", None, None, Some(<<>>)) >>,
      << ParameterDef("l", "log_uniform", Some(0), Some(Micro), None) >>,
      << ParameterDef("x", "int_range", None, None, None) >> }

PostedRequests ==
    OptRequests \cup
    { [ name |-> "opt", strategy |-> "random", max_trials |-> 1,
        concurrency |-> 1, objective_metric |-> "sharpe_ratio",
        direction |-> "maximize", search_space |-> space, grid_steps |-> 2 ] :
      space \in UnsampleableSpaces }

(* POST /optimizations, the task it schedules, and DELETE *)
NextPosted ==
    \/ \E o \in OptIds, req \in PostedRequests : opts = <<>> /\ create(o, req)
    \/ \E o \in OptIds : o \in DOMAIN opts /\ run_optimization_start(o)
    \/ \E o \in OptIds : run_optimization_resume(o)
    \/ \E o \in OptIds : cancel(o)

(* the event loop runs the task of every posted optimization, and every   *)
(* sleep of the task ends                                                  *)
SpecPosted ==
    /\ Init
    /\ [][NextPosted]_vars
    /\ \A o \in OptIds :
           WF_vars(\/ o \in DOMAIN opts /\ run_optimization_start(o)
                   \/ run_optimization_resume(o))

----------------------------------------------------------------------------
(* Properties of the run store *)

Last(seq) == seq[Len(seq)]

(* a step of one of the three mutators that publish on an existing run *)
Publishes(run_id) ==
    \/ \E s \in StateInputs : update_state(run_id, s[1], s[2])
    \/ \E p \in ProgressInputs : update_progress(run_id, p[1], p[2])
    \/ \E res \in Results : set_result(run_id, res)

C1_Ids ==
    \A r \in DOMAIN runs :
        /\ \A n \in 1..Len(runs[r].events) : runs[r].events[n].event_id = n
        /\ runs[r].next_event_id = Len(runs[r].events) + 1

C1_Append ==
    \A r \in DOMAIN runs' :
        LET old == IF r \in DOMAIN runs THEN runs[r].events ELSE <<>>
            new == runs'[r].events
        IN  \/ new = old
            \/ /\ Len(new) = Len(old) + 1
               /\ SubSeq(new, 1, Len(old)) = old
               /\ Last(new).event_id = Len(old) + 1

C2_ReplayAfterCursor ==
    \A r \in RunIds, c \in Cursors :
        LET got == get_events_after(r, c)
        IN  IF r \notin DOMAIN runs THEN got = <<>>
            ELSE IF c = None THEN got = runs[r].events
            ELSE /\ \A i \in 1..Len(got) : got[i].event_id > c[1]
                 /\ \A i, j \in 1..Len(got) :
                        i < j => got[i].event_id < got[j].event_id
                 /\ \A n \in 1..Len(runs[r].events) :
                        runs[r].events[n].event_id > c[1] =>
                            \E i \in 1..Len(got) : got[i] = runs[r].events[n]
                 /\ \A i \in 1..Len(got) :
                        \E n \in 1..Len(runs[r].events) :
                            got[i] = runs[r].events[n]

C2_Witness ==
    \E r \in DOMAIN runs :
        /\ Len(runs[r].events) = 3
        /\ Len(get_events_after(r, Some(1))) = 2
        /\ get_events_after(r, Some(3)) = <<>>

(* C3: the event ids put on one subscriber queue are strictly increasing  *)
C3_QueueOrder ==
    \A q \in DOMAIN delivered :
        \A i, j \in 1..Len(delivered[q]) :
            i < j => delivered[q][i] < delivered[q][j]

C3_Witness ==
    \E q \in DOMAIN delivered :
        /\ Len(delivered[q]) >= 2
        /\ Len(queues[q]) < Len(delivered[q])

C4_Step ==
    \A r \in DOMAIN runs :
        Publishes(r) =>
            /\ Len(runs'[r].events) = Len(runs[r].events) + 1
            /\ \A q \in DOMAIN queues :
                   queues'[q] =
                       IF q \in runs[r].subscribers
                          /\ Len(queues[q]) < QueueMaxSize
                       THEN Append(queues[q], Last(runs'[r].events))
                       ELSE queues[q]

(* C4: a publishing step always appends its event to the log; a           *)
(* subscriber queue that already holds 100 events is left as it is, and   *)
(* every other subscriber queue receives the event                        *)
C4_FullQueueDropsForItselfOnly == [][C4_Step]_vars

C4_Witness ==
    \E r \in DOMAIN runs : \E q1, q2 \in runs[r].subscribers :
        /\ Len(queues[q1]) = QueueMaxSize
        /\ Last(delivered[q1]) < Len(runs[r].events)
        /\ Len(delivered[q2]) >= 1
        /\ Last(delivered[q2]) = Len(runs[r].events)

C5_Step ==
    \A r \in DOMAIN runs, res \in Results :
        set_result(r, res) =>
            /\ runs'[r].status.state = "completed"
            /\ runs'[r].status.finished_at # None
            /\ runs'[r].result = Some(res)
            /\ Len(runs'[r].events) = Len(runs[r].events) + 1
            /\ Last(runs'[r].events).type = "state"
            /\ Last(runs'[r].events).payload.state = "completed"

(* C5: a set_result(id, R) step on an existing run ends with state        *)
(* completed, finished_at set, the stored result R and a completed state  *)
(* event appended to the log                                              *)
C5_SetResultCompletes == [][C5_Step]_vars

C5_Witness ==
    \E r \in DOMAIN runs :
        /\ runs[r].result = Some("R2")
        /\ runs[r].status.state = "completed"
        /\ runs[r].status.finished_at # None
        /\ Len(runs[r].events) >= 3
        /\ Last(runs[r].events).payload = state_payload("completed", None)

(* C6: get_result(id) is present only while the run's state is completed  *)
C6_ResultOnlyWhenCompleted ==
    \A r \in RunIds :
        get_result(r) # None => runs[r].status.state = "completed"

C7_Range ==
    \A r \in DOMAIN runs :
        runs[r].status.progress >= 0 /\ runs[r].status.progress <= ProgressOne

C7_Step ==
    \A r \in DOMAIN runs, p \in ProgressInputs :
        update_progress(r, p[1], p[2]) =>
            runs'[r].status.progress =
                IF p[1] < 0 THEN 0
                ELSE IF p[1] > ProgressOne THEN ProgressOne ELSE p[1]

(* C7: every stored progress lies in [0,1], and update_progress(id, v)    *)
(* stores 0 for v < 0, 1 for v > 1 and v otherwise                        *)
C7_ProgressClamped == []C7_Range /\ [][C7_Step]_vars

C7_Witness ==
    \E r \in DOMAIN runs :
        /\ runs[r].status.progress = ProgressOne
        /\ Last(runs[r].events).type = "progress"
        /\ Last(runs[r].events).payload.progress > ProgressOne
        /\ \E n \in 1..Len(runs[r].events) :
               /\ runs[r].events[n].type = "progress"
               /\ runs[r].events[n].payload.progress < 0

----------------------------------------------------------------------------
(* Properties of the optimization store *)

Terminal == {"completed", "failed", "cancelled"}

C8_Step ==
    \A o \in DOMAIN opts :
        opts[o].state \in Terminal => opts'[o].state = opts[o].state

(* C8: an optimization whose state is completed, failed or cancelled      *)
(* keeps that state in every later step                                   *)
C8_TerminalStateSticky == [][C8_Step]_vars

(* C9: over the life of an optimization at most one cancel call returns   *)
(* True                                                                   *)
C9_CancelSucceedsAtMostOnce ==
    \A o \in OptIds : Len(cancels[o]) <= 1

(* C10: when cancel succeeded at a batch boundary, with k batches         *)
(* completed and no batch in flight, the scheduler loop ends with the     *)
(* state cancelled, exactly the k * concurrency trials of those batches   *)
(* completed and every other trial pending                                *)
C10_CancelAtBatchBoundary ==
    \A o \in DOMAIN opts :
        \A i \in 1..Len(cancels[o]) :
            (sched[o].pc = "done" /\ cancels[o][i].pc # "sleep") =>
                /\ opts[o].state = "cancelled"
                /\ Cardinality(CompletedTrials(opts[o])) =
                       cancels[o][i].completed
                /\ \A n \in 1..Len(opts[o].trials) :
                       opts[o].trials[n].status \in {"completed", "pending"}

(* the objective scored by the trial at position i of the trial list *)
Scored(record, i) == record.trials[i].objective[1]

(* C11: as soon as a trial is completed best_trial is a completed trial    *)
(* whose objective is the maximum (maximize) or the minimum (minimize) of  *)
(* the objectives scored so far, and no completed trial with a smaller     *)
(* trial number, which completed earlier, scored the same objective        *)
C11_BestTrialIsEarliestExtreme ==
    \A o \in DOMAIN opts :
        LET record == opts[o]
            done == CompletedTrials(record)
        IN  done # {} =>
                /\ record.best_trial # None
                /\ LET b == record.best_trial[1] + 1
                   IN  /\ b \in done
                       /\ \A i \in done :
                              IF record.request.direction = "maximize"
                              THEN Scored(record, i) <= Scored(record, b)
                              ELSE Scored(record, i) >= Scored(record, b)
                       /\ \A i \in done :
                              Scored(record, i) = Scored(record, b) => i >= b

C11_Witness ==
    \E o \in DOMAIN opts :
        LET record == opts[o]
            done == CompletedTrials(record)
        IN  /\ Cardinality(done) >= 3
            /\ record.best_trial = Some(1)
            /\ Scored(record, 1) # Scored(record, 2)
            /\ Scored(record, 3) = Scored(record, 2)

(* the number of entries of each axis of the grid of a request *)
AxisSizes(request) ==
    [ i \in 1..Len(request.search_space) |->
        Len(_grid_values(request.search_space[i], request.grid_steps)) ]

RECURSIVE Times(_)
Times(sizes) == IF sizes = <<>> THEN 1 ELSE Head(sizes) * Times(Tail(sizes))

(* the optimizations whose scheduler loop has instantiated its trials *)
Instantiated ==
    { o \in DOMAIN opts : sched[o].pc \in {"sleep", "done"} }

(* C12: the trials instantiated by the scheduler loop are max_trials many  *)
(* for the random and bayesian strategies and min(max_trials, size of the  *)
(* cartesian product of the grids) many for the grid strategy, never more  *)
(* than max_trials                                                         *)
C12_TrialCount ==
    \A o \in Instantiated :
        LET request == opts[o].request
            count == Len(opts[o].trials)
        IN  /\ count <= request.max_trials
            /\ IF request.strategy = "grid"
               THEN count = Min(request.max_trials, Times(AxisSizes(request)))
               ELSE count = request.max_trials

C12_Witness ==
    \E o \in Instantiated :
        /\ opts[o].request.strategy = "grid"
        /\ Len(opts[o].trials) = 2
        /\ opts[o].request.max_trials = 3
        /\ Times(AxisSizes(opts[o].request)) = 2

(* the grid strategy's optimizations whose trials are instantiated *)
GridInstantiated ==
    { o \in Instantiated : opts[o].request.strategy = "grid" }

Axes(request) ==
    [ i \in 1..Len(request.search_space) |->
        _grid_values(request.search_space[i], request.grid_steps) ]

Names(request) ==
    [ i \in 1..Len(request.search_space) |-> request.search_space[i].name ]

(* the tuple at position k, counted from 0, of the product of the axes in  *)
(* row-major order: axis j advances every Times(sizes after j) positions   *)
RowMajor(axes, k) ==
    [ j \in 1..Len(axes) |->
        LET stride == Times([ l \in 1..Len(axes) - j |-> Len(axes[j + l]) ])
        IN  axes[j][((k \div stride) % Len(axes[j])) + 1] ]

(* trial k of the optimization o holds the k-th tuple of the product *)
C13_Order(o) ==
    LET request == opts[o].request
        axes == Axes(request)
    IN  /\ Len(opts[o].trials) =
               Min(request.max_trials, Times(AxisSizes(request)))
        /\ \A k \in 1..Len(opts[o].trials) :
               opts[o].trials[k].parameters =
                   Zip(Names(request), RowMajor(axes, k - 1))

(* no two trials of the optimization o hold the same assignment *)
C13_Distinct(o) ==
    \A k1, k2 \in 1..Len(opts[o].trials) :
        k1 # k2 => opts[o].trials[k1].parameters # opts[o].trials[k2].parameters

(* the axis holds every integer from lo to hi once, and nothing else *)
EveryIntegerOnce(axis, lo, hi) ==
    /\ \A n \in lo..hi :
           Cardinality({ i \in 1..Len(axis) : axis[i] = n }) = 1
    /\ \A i \in 1..Len(axis) : axis[i] \in lo..hi

(* the least integer that is not below the float x *)
Ceil(x) == 0 - ((0 - x) \div Micro)

(* the greatest integer that is not above the float x *)
Floor(x) == x \div Micro

(* C13, as stated: the grid strategy's trials are the first max_trials     *)
(* tuples of the product of the grids in row-major order, no combination   *)
(* appears twice, and an int_range parameter contributes every integer of  *)
(* [low, high] exactly once                                                *)
C13_GridRowMajorDistinct ==
    \A o \in GridInstantiated :
        LET request == opts[o].request
        IN  /\ C13_Order(o)
            /\ C13_Distinct(o)
            /\ \A i \in 1..Len(request.search_space) :
                   LET param == request.search_space[i]
                   IN  param.kind = "int_range" =>
                           EveryIntegerOnce(Axes(request)[i],
                                            Ceil(param.low[1]),
                                            Floor(param.high[1]))

(* the names of the parameters differ and no grid repeats a value *)
DistinctGrids(request) ==
    /\ \A i, j \in 1..Len(request.search_space) :
           i # j => Names(request)[i] # Names(request)[j]
    /\ \A i \in 1..Len(request.search_space) :
           \A a, b \in 1..Len(Axes(request)[i]) :
               a # b => Axes(request)[i][a] # Axes(request)[i][b]

(* C13, amended: the grid strategy's trials are the first max_trials       *)
(* tuples of the product of the grids in row-major order; no combination   *)
(* appears twice when the parameter names differ and no grid repeats a     *)
(* value; an int_range parameter contributes every integer from int(low)   *)
(* to int(high), its bounds truncated toward zero, exactly once            *)
C13_GridRowMajor ==
    \A o \in GridInstantiated :
        LET request == opts[o].request
        IN  /\ C13_Order(o)
            /\ DistinctGrids(request) => C13_Distinct(o)
            /\ \A i \in 1..Len(request.search_space) :
                   LET param == request.search_space[i]
                   IN  param.kind = "int_range" =>
                           EveryIntegerOnce(Axes(request)[i],
                                            int(param.low[1]),
                                            int(param.high[1]))

C13_Witness ==
    \E o \in GridInstantiated :
        /\ Len(opts[o].request.search_space) = 2
        /\ DistinctGrids(opts[o].request)
        /\ Len(opts[o].trials) = 3
        /\ opts[o].trials[2].parameters # opts[o].trials[1].parameters
        /\ opts[o].trials[2].parameters["x"] = opts[o].trials[1].parameters["x"]

(* C14: the result of an optimization is answered in three ways: not      *)
(* found (404) for an unknown id, not ready (409) while the state is       *)
(* pending, running or failed, and the result itself (200) once the state  *)
(* is completed or cancelled; the first two answers differ                 *)
C14_ThreeOutcomes ==
    \A o \in OptIds :
        LET response == get_optimization_results(o)
        IN  IF o \notin DOMAIN opts
            THEN /\ response.status_code = 404
                 /\ \A known \in DOMAIN opts :
                        get_optimization_results(known) # response
            ELSE IF opts[o].state \in {"pending", "running", "failed"}
            THEN response.status_code = 409
            ELSE /\ opts[o].state \in {"completed", "cancelled"}
                 /\ response.status_code = 200
                 /\ response.body.optimization_id = o
                 /\ response.body.state = opts[o].state
                 /\ Len(response.body.all_trials) = Len(opts[o].trials)

C14_Witness ==
    /\ \E o \in OptIds : get_optimization_results(o).status_code = 404
    /\ \E o \in DOMAIN opts :
           /\ opts[o].state = "cancelled"
           /\ get_optimization_results(o).status_code = 200
           /\ Len(get_optimization_results(o).body.all_trials) >= 2
           /\ get_optimization_results(o).body.best_trial # None

(* C15: asking for the result of a run that has not completed is answered *)
(* differently from asking for the result of an unknown run id             *)
C15_NotReadyIsNotNotFound ==
    \A unknown \in RunIds \ DOMAIN runs :
        \A r \in DOMAIN runs :
            runs[r].status.state # "completed" =>
                get_backtest_results(r) # get_backtest_results(unknown)

(* the ids on which cancel has nothing to cancel *)
NotCancellable ==
    { o \in OptIds : o \in DOMAIN opts => opts[o].state \in Terminal }

C16_ReturnsFalse == \A o \in NotCancellable : ~cancel_result(o)

C16_Step ==
    \A o \in NotCancellable :
        cancel(o) =>
            /\ opts' = opts
            /\ cancels' = cancels
            /\ refused'[o]

(* C16: cancel on an unknown id or on a completed, failed or cancelled     *)
(* optimization returns False and leaves every optimization record as it   *)
(* was                                                                     *)
C16_CancelRefused == []C16_ReturnsFalse /\ [][C16_Step]_vars

C16_Witness ==
    /\ \E o \in OptIds : o \notin DOMAIN opts /\ refused[o]
    /\ \E o \in DOMAIN opts :
           /\ refused[o]
           /\ opts[o].state = "cancelled"
           /\ opts[o].best_trial # None
    /\ \E o \in DOMAIN opts : Len(cancels[o]) = 1

----------------------------------------------------------------------------
(* Properties of the rate limiter *)

(* of the calls a key made at the time of its first call, the first        *)
(* MaxTokens are allowed and every further one is denied                   *)
C17_Burst ==
    \A k \in DOMAIN checks :
        \A i \in 1..Len(checks[k]) :
            checks[k][i].t = checks[k][1].t =>
                (checks[k][i].allowed <=> i <= MaxTokens)

(* a bucket never holds more than max_tokens, and a full window after its  *)
(* last check its refill holds max_tokens                                  *)
C17_Replenished ==
    \A k \in DOMAIN buckets :
        /\ buckets[k].tokens <= Full
        /\ refilled(k).tokens <= Full
        /\ mono - buckets[k].last_refill >= Window => refilled(k).tokens = Full

(* a call made a full window or more after the key's previous call finds  *)
(* max_tokens in the bucket                                                *)
C17_Step ==
    \A k \in DOMAIN buckets :
        (check(k) /\ mono - buckets[k].last_refill >= Window) =>
            /\ checks'[k][Len(checks'[k])].allowed
            /\ buckets'[k].tokens = Full - Token

(* C17: with no time elapsing exactly the first max_tokens calls of a     *)
(* fresh key are allowed and every further call is denied; once a full     *)
(* window has elapsed since the last check the bucket holds max_tokens     *)
(* again, and never more                                                   *)
C17_BurstThenReplenish ==
    /\ [](C17_Burst /\ C17_Replenished)
    /\ [][C17_Step]_vars

C17_Witness ==
    \E k \in DOMAIN checks :
        /\ Len(checks[k]) = MaxTokens + 2
        /\ \A i \in 1..MaxTokens + 1 : checks[k][i].t = 0
        /\ ~checks[k][MaxTokens + 1].allowed
        /\ checks[k][MaxTokens + 2].t >= Window
        /\ checks[k][MaxTokens + 2].allowed
        /\ buckets[k].tokens = Full - Token

C18_Range ==
    \A k \in DOMAIN buckets : buckets[k].tokens >= 0 /\ buckets[k].tokens <= Full

C18_Step ==
    \A k \in ClientIps :
        check(k) =>
            LET before == refilled(k).tokens
                result == checks'[k][Len(checks'[k])]
            IN  IF before >= Token
                THEN result.allowed /\ buckets'[k].tokens = before - Token
                ELSE ~result.allowed /\ buckets'[k].tokens = before

(* C18: every bucket holds between 0 and max_tokens tokens; check(key)    *)
(* answers allowed and takes exactly one token when the refilled bucket    *)
(* holds at least one token, and otherwise answers denied and takes none   *)
C18_TokenAccounting == []C18_Range /\ [][C18_Step]_vars

C18_Witness ==
    \E k \in DOMAIN checks :
        /\ Len(checks[k]) >= 4
        /\ ~checks[k][3].allowed
        /\ checks[k][4].allowed
        /\ buckets[k].tokens > 0
        /\ buckets[k].tokens < Token

----------------------------------------------------------------------------
(* Properties of the engine adapter *)

Finished(run_id) ==
    /\ run_id \in DOMAIN runs
    /\ runs[run_id].status.state \in {"completed", "failed"}

C19_Eventually ==
    \A run_id \in RunIds : (run_id \in DOMAIN tasks) ~> Finished(run_id)

(* when the results cannot be built the step that ends the task leaves    *)
(* the run failed with the message of the exception                        *)
C19_Step ==
    \A run_id \in RunIds :
        adapter_finish(run_id) =>
            LET exc == _build_sample_results_raises(runs[run_id].request)
            IN  IF exc = None
                THEN runs'[run_id].status.state = "completed"
                ELSE /\ runs'[run_id].status.state = "failed"
                     /\ runs'[run_id].status.error = exc

(* C19: every run whose adapter task was started eventually is completed  *)
(* or failed; an exception of the adapter is caught and the run is moved   *)
(* to failed with the message recorded                                     *)
C19_AdapterFinishes == C19_Eventually /\ [][C19_Step]_vars

C19_Witness ==
    \E run_id \in DOMAIN tasks :
        /\ tasks[run_id].pc = "done"
        /\ runs[run_id].status.state = "failed"
        /\ runs[run_id].status.error =
               Some("can't subtract offset-naive and offset-aware datetimes")
        /\ runs[run_id].status.progress = ProgressOne
        /\ runs[run_id].result = None

----------------------------------------------------------------------------
(* Termination of the optimization loop *)

Started(o) == o \in DOMAIN opts /\ sched[o].pc # "idle"

Ended(o) ==
    /\ o \in DOMAIN opts
    /\ opts[o].state \in {"completed", "failed", "cancelled"}

(* C20: every optimization whose scheduler loop was started eventually is *)
(* completed, failed or cancelled, also when the generation of its trial   *)
(* parameters raises                                                       *)
C20_EventuallyTerminal ==
    \A o \in OptIds :
        Started(o) ~> Ended(o)

----------------------------------------------------------------------------
(* Writes on a run id the store does not hold *)

C22_Step ==
    \A r \in RunIds :
        (r \notin DOMAIN runs /\ Publishes(r)) =>
            /\ runs' = runs
            /\ queues' = queues
            /\ delivered' = delivered

(* C22: update_state, update_progress and set_result on a run id that is  *)
(* not in the store make no record, append no event, put nothing on any    *)
(* queue and leave every run of the store as it was                        *)
C22_UnknownIdIsNoOp == [][C22_Step]_vars

C22_Witness ==
    /\ {"update_state", "update_progress", "set_result"} \subseteq ignored
    /\ \E r \in RunIds : r \notin DOMAIN runs
    /\ \E r \in DOMAIN runs :
           /\ runs[r].subscribers # {}
           /\ \A q \in runs[r].subscribers : queues[q] # <<>>

----------------------------------------------------------------------------
(* Lifecycle of a run *)

C23_Step ==
    \A r \in DOMAIN runs :
        runs[r].status.state \in {"completed", "failed"} =>
            runs'[r].status.state = runs[r].status.state

(* C23: once a run is completed or failed no operation of the store       *)
(* changes its state                                                       *)
C23_TerminalIsSticky == [][C23_Step]_vars

(* the states a run's log says it was given, in order *)
StatesGiven(r) ==
    { runs[r].events[i].payload.state :
        i \in { j \in 1..Len(runs[r].events) : runs[r].events[j].type = "state" } }

C24_Stamps ==
    \A r \in DOMAIN runs :
        /\ runs[r].status.started_at # None <=> "running" \in StatesGiven(r)
        /\ StatesGiven(r) \subseteq {"queued", "running"} =>
               runs[r].status.finished_at = None
        /\ runs[r].status.state \in {"completed", "failed"} =>
               runs[r].status.finished_at # None

C24_Step ==
    \A r \in DOMAIN runs :
        /\ runs[r].status.started_at # None =>
               runs'[r].status.started_at = runs[r].status.started_at
        /\ update_state(r, "running", None) =>
               /\ runs[r].status.started_at = None =>
                      runs'[r].status.started_at = Some(now)
               /\ runs[r].status.state = "running" =>
                      runs'[r].status = runs[r].status
        /\ (\E s \in StateInputs :
                s[1] \in {"completed", "failed"} /\ update_state(r, s[1], s[2])) =>
               runs'[r].status.finished_at = Some(now)

(* C24: started_at is absent until the first update_state(running), is    *)
(* set by it and never changes afterwards, a repeated running transition   *)
(* leaving the status as it was; finished_at is absent while the run was   *)
(* only queued or running and is set when it becomes completed or failed   *)
C24_Timestamps == []C24_Stamps /\ [][C24_Step]_vars

C24_Witness ==
    \E r \in DOMAIN runs :
        /\ now > 0
        /\ runs[r].status.started_at = Some(0)
        /\ runs[r].status.state = "running"
        /\ runs[r].status.finished_at = None
        /\ Len(runs[r].events) = 3
        /\ runs[r].events[2].payload.state = "running"
        /\ runs[r].events[3].type = "state"
        /\ runs[r].events[3].payload.state = "running"
        /\ runs[r].events[3].timestamp = now

IsQueuedEvent(event, r) ==
    /\ event.event_id = 1
    /\ event.run_id = r
    /\ event.type = "state"
    /\ event.payload.state = "queued"

C25_FirstEvent ==
    \A r \in DOMAIN runs :
        /\ runs[r].events # <<>>
        /\ IsQueuedEvent(runs[r].events[1], r)

C25_Step ==
    \A r \in RunIds, req \in Requests :
        create_run(r, req) =>
            /\ runs'[r].status.state = "queued"
            /\ runs'[r].status.progress = 0
            /\ Len(runs'[r].events) = 1

(* C25: create_run returns a status that is queued with progress 0, and   *)
(* from then on the run's log is not empty and starts with the state       *)
(* event, event_id 1, that says queued                                     *)
C25_CreatedQueued == []C25_FirstEvent /\ [][C25_Step]_vars

C25_Witness ==
    \E r \in DOMAIN runs :
        /\ Len(runs[r].events) >= 2
        /\ IsQueuedEvent(runs[r].events[1], r)
        /\ runs[r].events[2].type = "progress"
        /\ runs[r].status.state = "queued"

C26_Count ==
    \A r \in DOMAIN runs : Len(runs[r].events) = runs[r].next_event_id - 1

C26_Prefix ==
    \A r \in DOMAIN runs :
        /\ r \in DOMAIN runs'
        /\ Len(runs'[r].events) >= Len(runs[r].events)
        /\ \A i \in 1..Len(runs[r].events) :
               runs'[r].events[i] = runs[r].events[i]

(* C26: no step removes, reorders or alters an event of a log, so the log *)
(* of an earlier state is a prefix of the log of every later state, and a  *)
(* log always holds next_event_id - 1 events                               *)
C26_LogAppendOnly == []C26_Count /\ [][C26_Prefix]_vars

C26_Witness ==
    \E r \in DOMAIN runs :
        /\ Len(runs[r].events) = MaxEvents
        /\ runs[r].next_event_id = MaxEvents + 1
        /\ runs[r].events[MaxEvents].type = "progress"
        /\ runs[r].status.state = "failed"

----------------------------------------------------------------------------
(* Delivery to observers *)

Distinct(seq) ==
    \A i, j \in 1..Len(seq) : i # j => seq[i] # seq[j]

(* C27: no event is put twice on one subscriber queue, and a handler of   *)
(* the stream endpoint, replaying the backlog and then reading its queue,  *)
(* never sends one event_id twice                                          *)
C27_AtMostOnce ==
    /\ \A q \in DOMAIN delivered : Distinct(delivered[q])
    /\ \A h \in DOMAIN streams : Distinct(streams[h].sent)

C27_Witness ==
    \E h \in DOMAIN streams :
        /\ streams[h].last_event_id = None
        /\ streams[h].queue # None
        /\ streams[h].sent = << 1, 2 >>
        /\ delivered[streams[h].queue[1]] = << 2 >>
        /\ Len(runs[streams[h].run_id].events) = 2

----------------------------------------------------------------------------
(* Lock discipline *)

Standing(name) == coros[name].code[coros[name].pc]

Suspended(name) ==
    /\ name \in DOMAIN coros
    /\ coros[name].pc \in 1..Len(coros[name].code)

(* C28: while a coroutine is suspended awaiting the adapter's sleep, a    *)
(* batch's execution, a websocket send or a queue get, the lock of neither *)
(* store is held, and no coroutine is left waiting for a lock: every store *)
(* operation another task issues gets the lock and completes               *)
C28_NoLockAcrossAwait ==
    /\ \A lock \in DOMAIN held : held[lock] = None
    /\ \A name \in DOMAIN coros :
           Suspended(name) => Standing(name).op = "await"

C28_Witness ==
    /\ Suspended("adapter") /\ Standing("adapter") = Instr("await", "sleep")
    /\ Suspended("optimizer") /\ Standing("optimizer") = Instr("await", "sleep")
    /\ Suspended("stream") /\ Standing("stream") = Instr("await", "get")
    /\ "client" \in DOMAIN coros
    /\ coros["client"].pc > Len(coros["client"].code)

C29_Capacity ==
    \A q \in DOMAIN queues : Len(queues[q]) <= QueueMaxSize

C29_Step ==
    \A r \in {1, 2} :
        subscribe(r) =>
            IF r \in DOMAIN runs
            THEN \E q \in DOMAIN queues' \ DOMAIN queues :
                    /\ DOMAIN queues' = DOMAIN queues \cup {q}
                    /\ queues'[q] = <<>>
                    /\ \A p \in DOMAIN queues : queues'[p] = queues[p]
                    /\ runs'[r].subscribers = runs[r].subscribers \cup {q}
                    /\ runs'[r].events = runs[r].events
            ELSE runs' = runs /\ queues' = queues

(* C29: subscribe on a run of the store registers a new queue that is     *)
(* empty, whatever the log already holds; subscribe on an unknown run id   *)
(* registers nothing; no subscriber queue ever holds more than 100 events  *)
C29_SubscribeEmptyBounded == []C29_Capacity /\ [][C29_Step]_vars

C29_Witness ==
    /\ "subscribe" \in ignored
    /\ \E r \in DOMAIN runs : \E q \in runs[r].subscribers :
           /\ Len(queues[q]) = QueueMaxSize
           /\ queues[q][1].event_id = 2
           /\ Len(runs[r].events) = QueueMaxSize + 2

(* the queue a handler obtained from subscribe, if any *)
Obtained(h) == streams[h].queue

C30_Gone ==
    /\ \A h \in DOMAIN streams :
           (streams[h].pc = "ended" /\ Obtained(h) # None) =>
               \A r \in DOMAIN runs : Obtained(h)[1] \notin runs[r].subscribers
    /\ \A r \in DOMAIN runs : \A q \in runs[r].subscribers :
           \E h \in DOMAIN streams :
               Obtained(h) = Some(q) /\ streams[h].pc # "ended"

C30_Step ==
    \A r \in {1, 2} : \A q \in DOMAIN queues :
        unsubscribe_call(r, q) =>
            /\ queues' = queues
            /\ DOMAIN runs' = DOMAIN runs
            /\ \A k \in DOMAIN runs :
                   /\ q \notin runs'[k].subscribers \/ k # r
                   /\ runs'[k].subscribers \cup (IF k = r THEN {q} ELSE {}) =
                          runs[k].subscribers \cup (IF k = r THEN {q} ELSE {})
                   /\ runs'[k].events = runs[k].events
            /\ (r \notin DOMAIN runs \/ \A k \in DOMAIN runs :
                                            q \notin runs[k].subscribers)
                   => runs' = runs

(* C30: unsubscribe takes the queue out of the run's subscriber set and    *)
(* changes nothing when the queue is not in it or the run is unknown; a    *)
(* stream handler that obtained a queue and has ended, after a client      *)
(* disconnect or any other exception, has no queue left in any subscriber  *)
(* set, and every registered queue belongs to a handler that still runs    *)
C30_UnsubscribeOnEnd == []C30_Gone /\ [][C30_Step]_vars

C30_Witness ==
    /\ "unsubscribe" \in ignored
    /\ \E h \in DOMAIN streams :
           /\ streams[h].pc = "ended"
           /\ streams[h].disconnect_reason = "client"
           /\ Obtained(h) # None
           /\ streams[h].sent # <<>>
           /\ \A r \in DOMAIN runs : runs[r].subscribers = {}

(* the runs a listing with this filter is about *)
Matching(state) ==
    { r \in DOMAIN runs : state = None \/ runs[r].status.state = state[1] }

(* C31: list_runs returns the statuses of the runs whose state equals the  *)
(* filter, all runs without a filter, newest created_at first, and only    *)
(* the first limit of them                                                 *)
C31_Listing ==
    \A records \in _runs_values, state \in StateFilters, limit \in Limits :
        LET out == list_runs(records, state, limit)
            listed == { out[i].run_id : i \in DOMAIN out }
        IN  /\ Len(out) = Min(limit, Cardinality(Matching(state)))
            /\ listed \subseteq Matching(state)
            /\ Cardinality(listed) = Len(out)
            /\ \A i \in DOMAIN out : out[i] = runs[out[i].run_id].status
            /\ \A i, j \in DOMAIN out :
                   i < j => out[i].created_at >= out[j].created_at
            /\ \A r \in Matching(state) \ listed : \A i \in DOMAIN out :
                   runs[r].status.created_at <= out[i].created_at

C31_Witness ==
    \E records \in _runs_values, older, newer \in DOMAIN runs :
        /\ runs[older].status.created_at < runs[newer].status.created_at
        /\ runs[older].status.state = "running"
        /\ runs[newer].status.state = "queued"
        /\ list_runs(records, None, 1) = << runs[newer].status >>
        /\ list_runs(records, None, 3) =
               << runs[newer].status, runs[older].status >>
        /\ list_runs(records, Some("running"), 3) = << runs[older].status >>

(* the numbers of the trials of a record that have this status *)
TrialsIn(record, status) ==
    { n \in 0..Len(record.trials) - 1 : record.trials[n + 1].status = status }

(* the batch trial number n belongs to *)
BatchOf(record, n) == n \div record.request.concurrency

C32_Batches ==
    \A o \in DOMAIN opts :
        LET record == opts[o]
            numbers == 0..Len(record.trials) - 1
            status(n) == record.trials[n + 1].status
        IN  /\ Cardinality(TrialsIn(record, "running"))
                   <= record.request.concurrency
            /\ \A n, m \in numbers :
                   /\ BatchOf(record, n) = BatchOf(record, m)
                          => status(n) = status(m)
                   /\ (BatchOf(record, n) < BatchOf(record, m)
                           /\ status(m) # "pending")
                          => status(n) = "completed"

C32_Step ==
    \A o \in DOMAIN opts :
        o \in DOMAIN opts' =>
            LET record == opts'[o]
                started == TrialsIn(record, "running")
                               \ TrialsIn(opts[o], "running")
                first == Cardinality(TrialsIn(record, "completed"))
            IN  started # {} =>
                    /\ first % record.request.concurrency = 0
                    /\ started =
                           first..Min(first + record.request.concurrency,
                                      Len(record.trials)) - 1
                    /\ TrialsIn(record, "completed") = 0..first - 1
                    /\ TrialsIn(opts'[o], "running") = started

(* C32: the trials are processed in consecutive batches of concurrency     *)
(* trials in trial-number order, the last batch holding the remainder; a   *)
(* batch starts only when every trial of the batches before it is          *)
(* completed, and never more than concurrency trials are running           *)
C32_ConsecutiveBatches == []C32_Batches /\ [][C32_Step]_vars

C32_Witness ==
    \E o \in DOMAIN opts :
        /\ opts[o].request.concurrency = 2
        /\ Len(opts[o].trials) = 3
        /\ TrialsIn(opts[o], "completed") = {0, 1}
        /\ TrialsIn(opts[o], "running") = {2}

(* the successful cancels of o that came while a batch was in flight *)
InFlightCancels(o) ==
    { i \in 1..Len(cancels[o]) : cancels[o][i].pc = "sleep" }

(* the scheduler loop of o has exited *)
Exited(o) == sched[o].pc \in {"done", "raised"}

(* C33: after a cancel that succeeded while a batch was in flight, the     *)
(* trials of that batch still complete, no trial of a later batch leaves   *)
(* pending, so at most one batch completes after the cancel; and when the  *)
(* scheduler loop has exited no trial is running                           *)
C33_CancelInFlight ==
    \A o \in DOMAIN opts :
        LET record == opts[o]
            n == Len(record.trials)
        IN  /\ Exited(o) => TrialsIn(record, "running") = {}
            /\ \A i \in InFlightCancels(o) :
                   LET to == Min(cancels[o][i].completed
                                     + record.request.concurrency, n)
                   IN  /\ TrialsIn(record, "completed") \subseteq 0..to - 1
                       /\ to..n - 1 \subseteq TrialsIn(record, "pending")
                       /\ Exited(o) =>
                              /\ TrialsIn(record, "completed") = 0..to - 1
                              /\ record.state = "cancelled"

C33_Witness ==
    \E o \in DOMAIN opts :
        /\ Exited(o)
        /\ opts[o].request.concurrency = 1
        /\ Len(opts[o].trials) = 3
        /\ \E i \in InFlightCancels(o) : cancels[o][i].completed = 1
        /\ TrialsIn(opts[o], "completed") = {0, 1}
        /\ TrialsIn(opts[o], "pending") = {2}
        /\ opts[o].best_trial = Some(1)

(* the step in which the scheduler loop of o ends after its last batch *)
LastBatchEnds(o) ==
    /\ sched[o].pc = "sleep"
    /\ sched'[o].pc = "done"
    /\ sched'[o].batch_start >= Len(opts'[o].trials)

C34_LastBatch ==
    \A o \in DOMAIN opts :
        LastBatchEnds(o) =>
            IF opts[o].state = "running"
            THEN /\ opts'[o].state = "completed"
                 /\ opts'[o].finished_at = Some(now)
            ELSE /\ opts'[o].state = opts[o].state
                 /\ opts'[o].finished_at = opts[o].finished_at

C34_Once ==
    \A o \in DOMAIN opts :
        opts[o].finished_at # None =>
            opts'[o].finished_at = opts[o].finished_at

(* C34: the loop sets completed and finished_at after its last batch only  *)
(* if the state is still running, a cancelled optimization keeps its state *)
(* and the finished_at cancel wrote, and a finished_at that is set is      *)
(* never written again                                                     *)
C34_FinishedAtWrittenOnce == [][C34_LastBatch /\ C34_Once]_vars

(* the moves a trial status may make in one step *)
TrialMoves ==
    { <<"pending", "pending">>, <<"pending", "running">>,
      <<"running", "running">>, <<"running", "completed">>,
      <<"completed", "completed">> }

C35_Statuses ==
    \A o \in DOMAIN opts :
        /\ opts[o].state \in {"pending", "running", "completed", "cancelled"}
        /\ \A i \in 1..Len(opts[o].trials) :
               /\ opts[o].trials[i].status \in {"pending", "running", "completed"}
               /\ opts[o].trials[i].trial_number = i - 1

C35_Step ==
    \A o \in DOMAIN opts :
        /\ o \in DOMAIN opts'
        /\ \A i \in 1..Len(opts[o].trials) :
               /\ i <= Len(opts'[o].trials)
               /\ opts'[o].trials[i].trial_id = opts[o].trials[i].trial_id
               /\ opts'[o].trials[i].parameters = opts[o].trials[i].parameters
               /\ << opts[o].trials[i].status, opts'[o].trials[i].status >>
                      \in TrialMoves

(* C35: a trial status only moves pending -> running -> completed, neither *)
(* a failed trial nor a failed optimization is reachable, and trial_number *)
(* is the position of the trial in the trial list, which never changes     *)
C35_TrialLifecycle == []C35_Statuses /\ [][C35_Step]_vars

C35_Witness ==
    \E o \in DOMAIN opts :
        /\ Len(opts[o].trials) = 3
        /\ opts[o].trials[1].status = "completed"
        /\ opts[o].trials[2].status = "running"
        /\ opts[o].trials[3].status = "pending"
        /\ opts[o].trials[3].trial_number = 2

(* C36: best_trial is absent exactly when no trial is completed, and when  *)
(* present it is a completed trial of the optimization's own trial list    *)
(* that has an objective                                                   *)
C36_BestTrialWellFormed ==
    \A o \in DOMAIN opts :
        LET record == opts[o]
        IN  /\ record.best_trial = None <=> TrialsIn(record, "completed") = {}
            /\ record.best_trial # None =>
                   /\ record.best_trial[1] \in TrialsIn(record, "completed")
                   /\ record.trials[record.best_trial[1] + 1].trial_number
                          = record.best_trial[1]
                   /\ BestObjective(record) # None

C36_Witness ==
    \E o \in DOMAIN opts :
        /\ TrialsIn(opts[o], "completed") = {0, 1}
        /\ TrialsIn(opts[o], "running") = {2}
        /\ opts[o].best_trial = Some(1)
        /\ BestObjective(opts[o]) # None

(* the event ids of a sequence of events *)
IdsOf(events) == [ i \in DOMAIN events |-> events[i].event_id ]

(* the ids greater than the cursor among the first count ids of a log *)
IdsAfter(last_event_id, count) ==
    LET k == IF last_event_id = None THEN 0 ELSE last_event_id[1]
    IN  [ i \in 1..Max(count - k, 0) |-> k + i ]

(* C37: a handler that has subscribed and is still connected has sent, is  *)
(* sending or holds in its queue every event of its run past its cursor,   *)
(* in ascending order without a gap                                        *)
C37_NoGap ==
    \A h \in DOMAIN streams :
        LET stream == streams[h]
        IN  (stream.pc \in {"sending", "waiting"} /\ stream.queue # None) =>
                stream.sent \o IdsOf(stream.pending)
                            \o IdsOf(queues[stream.queue[1]])
                    = IdsAfter(stream.last_event_id,
                               Len(runs[stream.run_id].events))

(* the states carried by the state events of a log, in log order *)
StateEvents(events) ==
    LET kept == SelectSeq(events, LAMBDA event : event.type = "state")
    IN  [ i \in DOMAIN kept |-> kept[i].payload.state ]

C38_Latest ==
    \A r \in DOMAIN runs :
        LET given == StateEvents(runs[r].events)
        IN  given # <<>> /\ given[Len(given)] = runs[r].status.state

C38_Step ==
    \A r \in DOMAIN runs :
        LET before == StateEvents(runs[r].events)
            after == StateEvents(runs'[r].events)
        IN  /\ Len(after) \in {Len(before), Len(before) + 1}
            /\ SubSeq(after, 1, Len(before)) = before
            /\ Len(after) = Len(before) =>
                   runs'[r].status.state = runs[r].status.state
            /\ Len(after) > Len(before) =>
                   after[Len(after)] = runs'[r].status.state

(* C38: between store operations the latest state event of a run's log     *)
(* carries the run's current status.state, and every mutation of the state *)
(* appends its own state event before the next mutation is applied         *)
C38_LogFollowsState == []C38_Latest /\ [][C38_Step]_vars

C38_Witness ==
    \E r \in DOMAIN runs :
        /\ StateEvents(runs[r].events) = <<"queued", "running", "completed">>
        /\ runs[r].status.state = "completed"
        /\ runs[r].result # None

C39_Step ==
    \A r \in DOMAIN runs : \A p \in ProgressInputs :
        update_progress(r, p[1], p[2]) =>
            LET event == runs'[r].events[Len(runs'[r].events)]
            IN  /\ event.type = "progress"
                /\ event.payload.progress = runs'[r].status.progress

(* C39: the progress event update_progress emits carries the progress the  *)
(* run's status holds after the update, the clamped value                  *)
C39_EventCarriesStored == [][C39_Step]_vars

(* the bucket and the decisions of a client whose checks came at these     *)
(* times, had it been the only client of the limiter                       *)
RECURSIVE Alone(_)
Alone(times) ==
    IF Len(times) = 0
    THEN [ bucket |-> None, allowed |-> <<>> ]
    ELSE LET t == times[Len(times)]
             earlier == Alone(SubSeq(times, 1, Len(times) - 1))
             bucket == _refill(IF earlier.bucket = None
                               THEN _Bucket(t) ELSE earlier.bucket[1], t)
         IN  [ bucket |-> Some(IF has_token(bucket)
                               THEN [ bucket EXCEPT !.tokens = @ - Token ]
                               ELSE bucket),
               allowed |-> Append(earlier.allowed, has_token(bucket)) ]

C40_OwnHistory ==
    \A b \in DOMAIN buckets :
        LET alone == Alone([ i \in DOMAIN checks[b] |-> checks[b][i].t ])
        IN  /\ Some(buckets[b]) = alone.bucket
            /\ [ i \in DOMAIN checks[b] |-> checks[b][i].allowed ]
                   = alone.allowed

C40_Step ==
    \A a, b \in ClientIps :
        (a # b /\ check(a)) =>
            IF b \in DOMAIN buckets
            THEN b \in DOMAIN buckets' /\ buckets'[b] = buckets[b]
            ELSE b \notin DOMAIN buckets'

(* C40: check(a) leaves the bucket of every other key as it was, and what  *)
(* a key's checks are answered depends on the times of that key's own      *)
(* checks only: another client's exhausted bucket denies it nothing        *)
C40_BucketsIndependent == []C40_OwnHistory /\ [][C40_Step]_vars

C40_Witness ==
    \E a, b \in DOMAIN checks :
        /\ a # b
        /\ Len(checks[a]) > MaxTokens
        /\ ~checks[a][Len(checks[a])].allowed
        /\ checks[b][Len(checks[b])].allowed
        /\ checks[b][Len(checks[b])].t >= checks[a][Len(checks[a])].t
        /\ buckets[a].tokens < Token
        /\ buckets[b].tokens >= Token

====
